---------------------------- MODULE Spec2Model ----------------------------
(***************************************************************************)
(* A model of tiny-crawler: the crawl loop of Spider::crawl, the per-URL   *)
(* worker Spider::process_url, and the URL classifier of spider/utils.rs.  *)
(*                                                                         *)
(* Strings are sequences of one-character strings, so that prefix, suffix  *)
(* and substring tests, the digit-run split of the trap detector and the   *)
(* lexicographic sort of the report are computed as the code computes      *)
(* them.                                                                   *)
(***************************************************************************)
EXTENDS Integers, Sequences, FiniteSets, TLC

(***************************************************************************)
(* Bounds of the model.  The configuration of a crawl is drawn from these  *)
(* ranges in Init.                                                         *)
(***************************************************************************)
MaxDepthBound == 3
MaxLoopsBound == 3
MaxConcurrentBound == 2

(***************************************************************************)
(* Strings                                                                 *)
(***************************************************************************)
\* The characters used, in ASCII order: Code(c) orders them as u8 bytes do.
Alphabet ==
    << "#", "*", ".", "/", "0", "1", "2", "3", "4", "5", "6", "7", "8", "9",
       ":", "?", "a", "b", "c", "d", "e", "f", "h", "i", "j", "k", "l", "m",
       "n", "o", "p", "q", "s", "t", "v", "w", "x" >>

Code(c) == CHOOSE i \in 1..Len(Alphabet) : Alphabet[i] = c

Digit == {"0", "1", "2", "3", "4", "5", "6", "7", "8", "9"}

Letter == {"a", "b", "c", "d", "e", "f", "h", "i", "j", "k", "l", "m", "n",
           "o", "p", "q", "s", "t", "v", "w", "x"}

Min(a, b) == IF a <= b THEN a ELSE b

\* str::starts_with
starts_with(s, p) == Len(p) <= Len(s) /\ SubSeq(s, 1, Len(p)) = p

\* str::ends_with
ends_with(s, p) ==
    Len(p) <= Len(s) /\ SubSeq(s, Len(s) - Len(p) + 1, Len(s)) = p

\* str::contains
contains(s, p) ==
    \E i \in 0..(Len(s) - Len(p)) : SubSeq(s, i + 1, i + Len(p)) = p

\* The position of the first element of s that lies in set C, or Len(s)+1.
FirstIn(s, C) ==
    IF \E i \in 1..Len(s) : s[i] \in C
    THEN CHOOSE i \in 1..Len(s) :
             s[i] \in C /\ \A j \in 1..(i - 1) : s[j] \notin C
    ELSE Len(s) + 1

\* The position of the first element of s that lies outside set C, or Len(s)+1.
FirstNotIn(s, C) ==
    IF \E i \in 1..Len(s) : s[i] \notin C
    THEN CHOOSE i \in 1..Len(s) :
             s[i] \notin C /\ \A j \in 1..(i - 1) : s[j] \in C
    ELSE Len(s) + 1

\* Ord::cmp on strings: byte-wise lexicographic, a proper prefix is smaller.
StrLess(s, t) ==
    \E i \in 1..(Min(Len(s), Len(t)) + 1) :
        /\ \A j \in 1..(i - 1) : s[j] = t[j]
        /\ \/ i = Len(s) + 1 /\ i <= Len(t)
           \/ i <= Len(s) /\ i <= Len(t) /\ Code(s[i]) < Code(t[i])

\* str::split(sep): the pieces of s between the occurrences of character sep.
RECURSIVE split(_, _)
split(s, sep) ==
    LET i == FirstIn(s, {sep})
    IN  IF i > Len(s) THEN << s >>
        ELSE << SubSeq(s, 1, i - 1) >> \o split(SubSeq(s, i + 1, Len(s)), sep)

(***************************************************************************)
(* The url crate, as far as the crawler uses it.                           *)
(***************************************************************************)
Ok(v) == [ok |-> TRUE, val |-> v]
Err(e) == [ok |-> FALSE, err |-> e]

NoHost == << "(none)" >>

SpecialSchemes == { << "h", "t", "t", "p" >>, << "h", "t", "t", "p", "s" >> }

\* Url::parse: scheme ":" then either "//" host path, or an opaque path with no
\* host.  A string without a scheme is a relative URL and fails to parse; so
\* does a special-scheme URL with an empty host.
ParseUrl(s) ==
    LET c == FirstIn(s, {":"})
        scheme == SubSeq(s, 1, c - 1)
        after == SubSeq(s, c + 1, Len(s))
    IN  IF c > Len(s) \/ scheme = << >> \/ \E i \in 1..Len(scheme) : scheme[i] \notin Letter
        THEN Err("UrlParse")
        ELSE IF starts_with(after, << "/", "/" >>)
        THEN LET auth == SubSeq(after, 3, Len(after))
                 e == FirstIn(auth, {"/", "?", "#"})
                 host == SubSeq(auth, 1, e - 1)
                 rest == SubSeq(auth, e, Len(auth))
             IN  IF host = << >> THEN Err("UrlParse")
                 ELSE Ok([scheme |-> scheme, host |-> host,
                          path |-> IF scheme \in SpecialSchemes
                                      /\ ~starts_with(rest, << "/" >>)
                                   THEN << "/" >> \o rest ELSE rest])
        ELSE IF scheme \in SpecialSchemes THEN Err("UrlParse")
        ELSE Ok([scheme |-> scheme, host |-> NoHost, path |-> after])

\* Url::to_string / Url::as_str: the serialization of a parsed URL.
UrlToString(u) ==
    IF u.host = NoHost THEN u.scheme \o << ":" >> \o u.path
    ELSE u.scheme \o << ":", "/", "/" >> \o u.host \o u.path

\* Url::join: an absolute reference replaces the base, "//..." keeps the
\* scheme, "/..." keeps scheme and host, anything else replaces the last path
\* segment of the base.
UrlJoin(b, r) ==
    LET abs == ParseUrl(r)
        c == FirstIn(r, {":"})
        hasScheme == c <= Len(r) /\ c > 1
                     /\ \A i \in 1..(c - 1) : r[i] \in Letter
    IN  IF hasScheme THEN abs
        ELSE IF b.host = NoHost THEN Err("UrlParse")
        ELSE IF starts_with(r, << "/", "/" >>)
        THEN ParseUrl(b.scheme \o << ":" >> \o r)
        ELSE IF starts_with(r, << "/" >>)
        THEN Ok([b EXCEPT !.path = r])
        ELSE LET q == FirstIn(b.path, {"?", "#"})
                 p == SubSeq(b.path, 1, q - 1)
                 dirs == { i \in 1..Len(p) : p[i] = "/" }
                 last == IF dirs = {} THEN 0
                         ELSE CHOOSE i \in dirs : \A j \in dirs : j <= i
             IN  Ok([b EXCEPT !.path = SubSeq(p, 1, last) \o r])

(***************************************************************************)
(* The URL classifier (spider/utils.rs)                                    *)
(***************************************************************************)
WWW == << "w", "w", "w", "." >>

\* str::strip_prefix("www.") with the fallback the callers use.
StripWww(host) ==
    IF starts_with(host, WWW) THEN SubSeq(host, Len(WWW) + 1, Len(host)) ELSE host

\* extract_base_domain with one error kind for every failure.
extract_base_domain_invalid_url(url_str) ==
    LET url == ParseUrl(url_str)
    IN  IF ~url.ok THEN Err("InvalidUrl")
        ELSE IF url.val.host = NoHost THEN Err("InvalidUrl")
        ELSE Ok(StripWww(url.val.host))

extract_base_domain(url_str) ==
    LET url == ParseUrl(url_str)
    IN  IF ~url.ok THEN Err("UrlParse")
        ELSE IF url.val.host = NoHost THEN Err("InvalidUrl")
        ELSE Ok(StripWww(url.val.host))

\* The domain check that lets a URL without a host pass.
is_same_domain_fail_open(url_str, base_domain) ==
    LET url == ParseUrl(url_str)
    IN  IF ~url.ok THEN Err("UrlParse")
        ELSE IF url.val.host = NoHost THEN Ok(TRUE)
        ELSE LET normalized_host == StripWww(url.val.host)
             IN  Ok(\/ normalized_host = base_domain
                    \/ ends_with(normalized_host, << "." >> \o base_domain))

\* The domain check with a suffix test that does not ask for the dot.
is_same_domain_suffix(url_str, base_domain) ==
    LET url == ParseUrl(url_str)
    IN  IF ~url.ok THEN Err("UrlParse")
        ELSE IF url.val.host = NoHost THEN Err("InvalidUrl")
        ELSE LET normalized_host == StripWww(url.val.host)
             IN  Ok(\/ normalized_host = base_domain
                    \/ ends_with(normalized_host, base_domain))

is_same_domain(url_str, base_domain) ==
    LET url == ParseUrl(url_str)
    IN  IF ~url.ok THEN Err("UrlParse")
        ELSE IF url.val.host = NoHost THEN Err("InvalidUrl")
        ELSE LET normalized_host == StripWww(url.val.host)
             IN  Ok(\/ normalized_host = base_domain
                    \/ ends_with(normalized_host, << "." >> \o base_domain))

normalize_url(url_str) ==
    LET url == ParseUrl(url_str)
    IN  IF ~url.ok THEN Err("UrlParse") ELSE Ok(UrlToString(url.val))

resolve_url(base_url, relative_url) ==
    LET base == ParseUrl(base_url)
    IN  IF ~base.ok THEN Err("UrlParse")
        ELSE LET absolute_url == UrlJoin(base.val, relative_url)
             IN  IF ~absolute_url.ok THEN Err("UrlParse")
                 ELSE Ok(UrlToString(absolute_url.val))

should_skip_url(url, skip_patterns) ==
    \E i \in 1..Len(skip_patterns) : contains(url, skip_patterns[i])

should_skip_subdomain(url_str, skip_subdomain_patterns) ==
    LET url == ParseUrl(url_str)
    IN  IF ~url.ok THEN Err("UrlParse")
        ELSE IF url.val.host = NoHost THEN Err("InvalidUrl")
        ELSE LET normalized_host == StripWww(url.val.host)
             IN  Ok(\E i \in 1..Len(skip_subdomain_patterns) :
                        starts_with(normalized_host, skip_subdomain_patterns[i]))

is_priority_url(url, priority_paths) ==
    \E i \in 1..Len(priority_paths) : contains(url, priority_paths[i])

\* The regex (.*?)(\d+)(.*): the text before the first digit, the maximal digit
\* run that starts there, and the rest.  NoPattern when url has no digit.
NoPattern == << "(no pattern)" >>

PatternOf(url) ==
    LET i == FirstIn(url, Digit)
        tail == SubSeq(url, i, Len(url))
        j == FirstNotIn(tail, Digit)
    IN  IF i > Len(url) THEN NoPattern
        ELSE SubSeq(url, 1, i - 1) \o << "*" >> \o SubSeq(tail, j, Len(tail))

\* The number of positions of urls whose pattern is pat: the HashMap counter.
PatternCount(urls, pat) == Cardinality({ i \in 1..Len(urls) : PatternOf(urls[i]) = pat })

\* detect_massive_links_pattern: None below the threshold; otherwise the
\* candidates are the patterns of maximal count among those with count >=
\* threshold.  max_by_key over HashMap iteration order picks an arbitrary one of
\* them, so the result is a set: empty for None, else every pattern the call may
\* return.
\* The detector returning any pattern that reaches the threshold.
detect_massive_links_pattern_any(urls, threshold) ==
    IF Len(urls) < threshold THEN {}
    ELSE LET pats == { PatternOf(urls[i]) : i \in 1..Len(urls) } \ {NoPattern}
         IN  { p \in pats : PatternCount(urls, p) >= threshold }

detect_massive_links_pattern(urls, threshold) ==
    IF Len(urls) < threshold THEN {}
    ELSE LET pats == { PatternOf(urls[i]) : i \in 1..Len(urls) } \ {NoPattern}
             over == { p \in pats : PatternCount(urls, p) >= threshold }
         IN  { p \in over :
                 \A q \in over : PatternCount(urls, q) <= PatternCount(urls, p) }

\* The closure at crawler.rs:183: a pattern matches when it splits around '*'
\* into exactly two parts, a prefix and a suffix of the URL.
PatternMatches(pattern, url) ==
    LET pattern_parts == split(pattern, "*")
    IN  /\ Len(pattern_parts) = 2
        /\ starts_with(url, pattern_parts[1])
        /\ ends_with(url, pattern_parts[2])

matches_pattern(patterns, url) == \E p \in patterns : PatternMatches(p, url)

(***************************************************************************)
(* The configuration (spider/config.rs) and the web the crawler runs on    *)
(***************************************************************************)
\* Pattern lists as set through SpiderConfigBuilder; the defaults of config.rs
\* have the same shape ("/docs/", "docs.", "/faq").
skip_patterns == << << "/", "k", "/" >> >>
skip_subdomain_patterns == << << "d", "." >> >>
priority_paths == << << "/", "p" >> >>

PatternThresholds == {2, 3}

Configs ==
    [max_depth : 0..MaxDepthBound, max_loops : 0..MaxLoopsBound,
     max_concurrent : 0..MaxConcurrentBound,
     pattern_threshold : PatternThresholds]

HTTP == << "h", "t", "t", "p", ":", "/", "/" >>
Home == HTTP \o << "e", ".", "c", "/" >>
UrlA == Home \o << "a" >>
UrlP == Home \o << "p" >>
UrlK1 == Home \o << "k", "/", "1" >>
UrlK2 == Home \o << "k", "/", "2" >>
UrlD == HTTP \o << "d", ".", "e", ".", "c", "/" >>
UrlDK == HTTP \o << "d", ".", "e", ".", "c", "/", "k", "/" >>
UrlX == HTTP \o << "x", ".", "c", "/" >>
UrlStar1 == Home \o << "*", "/", "1" >>
UrlStar2 == Home \o << "*", "/", "2" >>

MAILTO == << "m", "a", "i", "l", "t", "o", ":" >>

\* A string that is no URL, and a URL without a host.
SeedBad == << "e", ".", "c" >>
SeedNoHost == MAILTO \o << "s" >>

\* The start URLs a crawl may be given.
StartUrls == { HTTP \o << "e", ".", "c" >>, SeedBad, SeedNoHost }
JAVASCRIPT == << "j", "a", "v", "a", "s", "c", "r", "i", "p", "t", ":" >>

\* Two same-domain links and one cross-domain link.
PageHome1 == << << "/", "a" >>, << "/", "p" >>, UrlX >>
\* Two numbered links into the skipped path, and a plain page.
PageHome2 ==
    << << "/", "k", "/", "1" >>, << "/", "k", "/", "2" >>, << "/", "a" >> >>
\* Links into the skipped subdomain.
PageHome3 ==
    << << "/", "/", "d", ".", "e", ".", "c", "/", "k", "/" >>,
       << "/", "/", "d", ".", "e", ".", "c", "/" >> >>
\* Two numbered links below a path segment that is a literal star.
PageHome4 == << << "/", "*", "/", "1" >>, << "/", "*", "/", "2" >> >>
\* The second link does not resolve (no host) and the third resolves to a URL
\* without a host; links follow them.
PageA ==
    << << "/", "k", "/", "1" >>, << "/", "/" >>, << "t", "e", "l", ":", "1" >>,
       << "p" >>, << "#", "t" >>, << >> >>
PageP == << << "/", "a" >>, << "/" >>, MAILTO \o << "x" >> >>

\* The documents the site may serve at a (final) URL.
Pages(url) ==
    IF url = Home THEN {PageHome1, PageHome2, PageHome3, PageHome4}
    ELSE IF url = UrlA THEN {PageA}
    ELSE IF url = UrlP THEN {PageP}
    ELSE {<< >>}

\* The URLs a request for url may end at after redirects.
Finals(url) ==
    IF url = UrlP THEN {UrlP, Home}
    ELSE IF url = UrlStar1 THEN {UrlStar1, UrlA}
    ELSE {url}

(***************************************************************************)
(* State                                                                   *)
(***************************************************************************)
VARIABLES
    cfg,                    \* SpiderConfig of the crawl
    pc,                     \* where Spider::crawl stands
    base_url,               \* normalized_start_url
    base_domain,
    queue,                  \* VecDeque<UrlEntry>
    visited_urls,           \* HashSet<String>
    found_urls,             \* Vec<String>
    skipped_urls,           \* HashMap<String, Vec<String>>; << >> for no key
    massive_link_patterns,  \* HashSet<String>
    redirects,              \* HashMap<String, String> as a set of pairs
    unreachable_urls,       \* Vec<String>
    loop_count,
    processed_urls_count,
    batch,                  \* the batch of the running loop iteration
    workers,                \* the futures of the batch, one per dispatched entry
    result,                 \* what crawl returned
    requests,               \* how many requests were sent for each URL
    dropped_count,          \* how many futures returned at "Already visited"
    served,                 \* the documents read: << requested, final, hrefs >>
    files,                  \* the files under output/crawler, by file name
    url_file,               \* the lines of the file at url_file_path, or NoFile
    max_concurrent_sites,
    loader_pc,              \* where Loader::crawl_all stands
    seed_urls,              \* the seeds load_urls returned (urls)
    next_url,               \* the position of the iterator over the futures
    current,                \* the seed whose future is being polled, or 0
    parked,                 \* the crawls of the other futures in progress
    results,                \* the outcomes collected so far
    processed,              \* the progress counter
    crawl_all_result,       \* what crawl_all returned
    call,                   \* a function of the library called on its own
    ret                     \* what the call returned

vars ==
    << cfg, pc, base_url, base_domain, queue, visited_urls, found_urls,
       skipped_urls, massive_link_patterns, redirects, unreachable_urls,
       loop_count, processed_urls_count, batch, workers, result, requests,
       dropped_count, served, files, url_file, max_concurrent_sites, loader_pc, seed_urls,
       next_url, current, parked, results, processed, crawl_all_result,
       call, ret >>

call_vars == << call, ret >>

loader_vars ==
    << url_file, max_concurrent_sites, loader_pc, seed_urls, next_url, current,
       parked, results, processed, crawl_all_result >>

Reasons ==
    << "max_depth_exceeded", "massive_link_pattern", "skip_pattern",
       "subdomain_pattern" >>

\* The report file before File::create, and after a write that failed midway.
NoFile == [kind |-> "none"]
PartialFile == [kind |-> "partial"]

NoResult == [kind |-> "none"]

NoCall == [fn |-> "none"]

UrlEntry(url, depth, priority) == [url |-> url, depth |-> depth, priority |-> priority]

Urls(entries) == [i \in 1..Len(entries) |-> entries[i].url]

Range(s) == { s[i] : i \in 1..Len(s) }

Init ==
    /\ cfg \in Configs
    /\ pc = "new"
    /\ base_url = << >>
    /\ base_domain = << >>
    /\ queue = << >>
    /\ visited_urls = {}
    /\ found_urls = << >>
    /\ skipped_urls = [r \in Range(Reasons) |-> << >>]
    /\ massive_link_patterns = {}
    /\ redirects = {}
    /\ unreachable_urls = << >>
    /\ loop_count = 0
    /\ processed_urls_count = 0
    /\ batch = << >>
    /\ workers = << >>
    /\ result = NoResult
    /\ requests = << >>
    /\ dropped_count = 0
    /\ served = {}
    /\ files = << >>
    /\ url_file = NoFile
    /\ max_concurrent_sites = 0
    /\ loader_pc = "none"
    /\ seed_urls = << >>
    /\ next_url = 1
    /\ current = 0
    /\ parked = << >>
    /\ results = << >>
    /\ processed = 0
    /\ crawl_all_result = NoResult
    /\ call = NoCall
    /\ ret = NoResult

(***************************************************************************)
(* Spider::crawl                                                           *)
(***************************************************************************)
\* Vec::sort_by(|a, b| b.priority.cmp(&a.priority)): stable, descending.
sort_by_priority(entries) ==
    LET n == Len(entries)
        \* The position of entries[i] in the result: after every entry of higher
        \* priority and after the earlier entries of the same priority.
        rank(i) == Cardinality({ j \in 1..n :
                       \/ entries[j].priority > entries[i].priority
                       \/ entries[j].priority = entries[i].priority /\ j <= i })
    IN  [k \in 1..n |-> entries[CHOOSE i \in 1..n : rank(i) = k]]

\* The found list left in insertion order.
sort_none(urls) == urls

\* Vec<String>::sort
RECURSIVE sort(_)
sort(urls) ==
    IF urls = << >> THEN << >>
    ELSE LET acc == sort(SubSeq(urls, 1, Len(urls) - 1))
             u == urls[Len(urls)]
             n == Cardinality({ i \in 1..Len(acc) : ~StrLess(u, acc[i]) })
         IN  SubSeq(acc, 1, n) \o << u >> \o SubSeq(acc, n + 1, Len(acc))

\* Vec::dedup: removes consecutive repeated elements.
RECURSIVE dedup(_)
dedup(urls) ==
    IF Len(urls) <= 1 THEN urls
    ELSE LET acc == dedup(SubSeq(urls, 1, Len(urls) - 1))
         IN  IF acc[Len(acc)] = urls[Len(urls)] THEN acc
             ELSE Append(acc, urls[Len(urls)])

\* crawler.rs:86-123: the seed is accepted and enqueued, or crawl fails.
crawl(start_url) ==
    /\ pc = "new"
    /\ LET bd == extract_base_domain(start_url)
           nu == normalize_url(start_url)
       IN  IF ~bd.ok \/ ~nu.ok
           THEN /\ pc' = "done"
                /\ result' = [kind |-> "err", err |-> IF ~bd.ok THEN bd.err ELSE nu.err]
                /\ UNCHANGED << base_url, base_domain, queue >>
           ELSE /\ pc' = "loop"
                /\ base_domain' = bd.val
                /\ base_url' = nu.val
                /\ queue' = Append(queue, UrlEntry(nu.val, 0, 100))
                /\ UNCHANGED result
    /\ UNCHANGED << cfg, call_vars, visited_urls, found_urls, skipped_urls,
                    massive_link_patterns, redirects, unreachable_urls,
                    loop_count, processed_urls_count, batch, workers, requests, dropped_count, served,
                    files, loader_vars >>

\* main.rs: the crawl command calls crawl with the URL it was given.
crawl_start == \E start_url \in StartUrls : crawl(start_url)

\* crawler.rs:140-152: drain, sort, take the batch, put the rest back.
\* A batch that is the whole queue.
batch_size_whole_queue(entries) == Len(entries)

batch_size(entries) == Min(cfg.max_concurrent, Len(entries))

\* The batch taken from the head of the queue as it is, without the sort.
select_batch_unsorted(q) ==
    [batch |-> SubSeq(q, 1, batch_size(q)),
     rest |-> SubSeq(q, batch_size(q) + 1, Len(q))]

select_batch(q) ==
    LET entries == sort_by_priority(q)
    IN  [batch |-> SubSeq(entries, 1, batch_size(entries)),
         rest |-> SubSeq(entries, batch_size(entries) + 1, Len(entries))]

\* The filters with skip_pattern tried before massive_link_pattern.
filter_reason_skip_first(entry, patterns) ==
    IF entry.depth >= cfg.max_depth THEN "max_depth_exceeded"
    ELSE IF should_skip_url(entry.url, skip_patterns) THEN "skip_pattern"
    ELSE IF matches_pattern(patterns, entry.url) THEN "massive_link_pattern"
    ELSE LET skip_subdomain_result ==
                 should_skip_subdomain(entry.url, skip_subdomain_patterns)
         IN  IF skip_subdomain_result.ok /\ skip_subdomain_result.val
             THEN "subdomain_pattern"
             ELSE "dispatch"

\* The filters with an error of the subdomain check taken as a match.
filter_reason_fail_closed(entry, patterns) ==
    IF entry.depth >= cfg.max_depth THEN "max_depth_exceeded"
    ELSE IF matches_pattern(patterns, entry.url) THEN "massive_link_pattern"
    ELSE IF should_skip_url(entry.url, skip_patterns) THEN "skip_pattern"
    ELSE LET skip_subdomain_result ==
                 should_skip_subdomain(entry.url, skip_subdomain_patterns)
         IN  IF ~skip_subdomain_result.ok \/ skip_subdomain_result.val
             THEN "subdomain_pattern"
             ELSE "dispatch"

\* The filters with a depth check that lets depth = max_depth pass.
filter_reason_depth_above(entry, patterns) ==
    IF entry.depth > cfg.max_depth THEN "max_depth_exceeded"
    ELSE IF matches_pattern(patterns, entry.url) THEN "massive_link_pattern"
    ELSE IF should_skip_url(entry.url, skip_patterns) THEN "skip_pattern"
    ELSE LET skip_subdomain_result ==
                 should_skip_subdomain(entry.url, skip_subdomain_patterns)
         IN  IF skip_subdomain_result.ok /\ skip_subdomain_result.val
             THEN "subdomain_pattern"
             ELSE "dispatch"

\* crawler.rs:167-240: the reason an entry is skipped for, or "dispatch".
filter_reason(entry, patterns) ==
    IF entry.depth >= cfg.max_depth THEN "max_depth_exceeded"
    ELSE IF matches_pattern(patterns, entry.url) THEN "massive_link_pattern"
    ELSE IF should_skip_url(entry.url, skip_patterns) THEN "skip_pattern"
    ELSE LET skip_subdomain_result ==
                 should_skip_subdomain(entry.url, skip_subdomain_patterns)
         IN  IF skip_subdomain_result.ok /\ skip_subdomain_result.val
             THEN "subdomain_pattern"
             ELSE "dispatch"

\* The skip map when the closure goes on to the skip patterns after it has
\* recorded an entry as too deep.
RECURSIVE skip_batch_no_return(_, _, _, _)
skip_batch_no_return(skipped, b, n, patterns) ==
    IF n = 0 THEN skipped
    ELSE LET before == skip_batch_no_return(skipped, b, n - 1, patterns)
             reason == filter_reason(b[n], patterns)
             recorded == [before EXCEPT ![reason] = Append(@, b[n].url)]
         IN  IF reason = "dispatch" THEN before
             ELSE IF reason = "max_depth_exceeded"
                       /\ should_skip_url(b[n].url, skip_patterns)
             THEN [recorded EXCEPT !["skip_pattern"] = Append(@, b[n].url)]
             ELSE recorded

\* The skip map after the filters ran over the first n entries of b, in order.
RECURSIVE skip_batch(_, _, _, _)
skip_batch(skipped, b, n, patterns) ==
    IF n = 0 THEN skipped
    ELSE LET before == skip_batch(skipped, b, n - 1, patterns)
             reason == filter_reason(b[n], patterns)
         IN  IF reason = "dispatch" THEN before
             ELSE [before EXCEPT ![reason] = Append(@, b[n].url)]

\* Mutex::lock and the drop of its guard, and the set of mutexes a future
\* holds after a sequence of them.
Lock(m) == [op |-> "lock", m |-> m]
Drop(m) == [op |-> "drop", m |-> m]

RECURSIVE Guards(_, _)
Guards(held, ops) ==
    IF ops = << >> THEN held
    ELSE LET before == Guards(held, SubSeq(ops, 1, Len(ops) - 1))
             last == ops[Len(ops)]
         IN  IF last.op = "lock" THEN before \cup {last.m} ELSE before \ {last.m}

\* crawler.rs:182: the guard of the pattern set is a temporary of the
\* statement that clones the set.
filter_guards == << Lock("massive_link_patterns"), Drop("massive_link_patterns") >>

\* The guard of the Visited Ledger bound in the body of process_url, alive
\* until process_url returns.
mark_visited_guards_kept == << Lock("visited_urls") >>

\* crawler.rs:408-415: the guard lives in the block, also on the early return.
mark_visited_guards == << Lock("visited_urls"), Drop("visited_urls") >>

\* crawler.rs:418-421
push_found_guards == << Lock("found_urls"), Drop("found_urls") >>

\* crawler.rs:431-434
unreachable_guards == << Lock("unreachable_urls"), Drop("unreachable_urls") >>

\* crawler.rs:442-445
redirect_guards == << Lock("redirects"), Drop("redirects") >>

\* The link block with the queue's guard taken before the ledger's.
link_guards_queue_first ==
    << Lock("queue"), Lock("visited_urls"), Drop("visited_urls"), Drop("queue"),
       Lock("queue"), Drop("queue") >>

\* crawler.rs:528-560: for a link, the ledger's guard, the queue's guard inside
\* it, both dropped at the end of the block; then the queue's guard again for
\* the push.
link_guards ==
    << Lock("visited_urls"), Lock("queue"), Drop("queue"), Drop("visited_urls"),
       Lock("queue"), Drop("queue") >>

\* The futures created for the entries that pass the filters, in batch order.
RECURSIVE spawn(_, _)
spawn(b, patterns) ==
    IF b = << >> THEN << >>
    ELSE LET before == spawn(SubSeq(b, 1, Len(b) - 1), patterns)
             entry == b[Len(b)]
         IN  IF filter_reason(entry, patterns) = "dispatch"
             THEN Append(before, [url |-> entry.url, depth |-> entry.depth,
                                  st |-> "start", cur |-> << >>,
                                  held |-> Guards({}, filter_guards)])
             ELSE before

\* crawler.rs:129-269: one pass of the loop head up to the await of the batch.
crawl_next_batch ==
    /\ pc = "loop"
    /\ loop_count < cfg.max_loops
    /\ queue # << >>
    /\ \E sel \in { select_batch(queue) } :
       \E found \in { detect_massive_links_pattern(Urls(sel.batch), cfg.pattern_threshold) } :
           /\ batch' = sel.batch
           /\ queue' = sel.rest
           /\ \/ found = {} /\ UNCHANGED massive_link_patterns
              \/ \E pattern \in found :
                     massive_link_patterns' = massive_link_patterns \cup {pattern}
           /\ skipped_urls' =
                  skip_batch(skipped_urls, sel.batch, Len(sel.batch), massive_link_patterns')
           /\ workers' = spawn(sel.batch, massive_link_patterns')
    /\ loop_count' = loop_count + 1
    /\ pc' = "wait"
    /\ UNCHANGED << cfg, call_vars, base_url, base_domain, visited_urls, found_urls,
                    redirects, unreachable_urls, processed_urls_count, result,
                    requests, dropped_count, served,
                    files, loader_vars >>

all_done == \A i \in 1..Len(workers) : workers[i].st = "done"

\* The loop going on as soon as one future of the batch has completed.
crawl_batch_done_early ==
    /\ pc = "wait"
    /\ workers = << >> \/ \E i \in 1..Len(workers) : workers[i].st = "done"
    /\ processed_urls_count' = processed_urls_count + Len(batch)
    /\ batch' = << >>
    /\ workers' = << >>
    /\ pc' = "loop"
    /\ UNCHANGED << cfg, call_vars, base_url, base_domain, queue, visited_urls, found_urls,
                    skipped_urls, massive_link_patterns, redirects,
                    unreachable_urls, loop_count, result, requests, dropped_count, served,
                    files, loader_vars >>

\* crawler.rs:272-275: stream::iter(futures).buffer_unordered(n).collect()
\* is ready when the iterator is exhausted and every future it gave has
\* completed.  buffer_unordered takes from the iterator only while fewer than
\* n futures are in progress, so with n = 0 it never takes, never sees the end
\* of the iterator, and the await is never ready.
collect_ready == cfg.max_concurrent > 0 /\ all_done

\* crawler.rs:271-277: the await of the batch returns.
crawl_batch_done ==
    /\ pc = "wait"
    /\ collect_ready
    /\ processed_urls_count' = processed_urls_count + Len(batch)
    /\ batch' = << >>
    /\ workers' = << >>
    /\ pc' = "loop"
    /\ UNCHANGED << cfg, call_vars, base_url, base_domain, queue, visited_urls, found_urls,
                    skipped_urls, massive_link_patterns, redirects,
                    unreachable_urls, loop_count, result, requests, dropped_count, served,
                    files, loader_vars >>

SumLen(f) ==
    Len(f["max_depth_exceeded"]) + Len(f["massive_link_pattern"])
        + Len(f["skip_pattern"]) + Len(f["subdomain_pattern"])

\* The report as it is first created, its remaining_queue never filled in.
CrawlResult_queue_unset(loops) ==
    LET urls == dedup(sort(found_urls))
    IN  [kind |-> "ok",
         base_url |-> base_url,
         base_domain |-> base_domain,
         urls |-> urls,
         skipped_urls |-> skipped_urls,
         massive_link_patterns |-> massive_link_patterns,
         redirects |-> redirects,
         unreachable_urls |-> unreachable_urls,
         remaining_queue |-> << >>,
         stats |-> [loops |-> loops,
                    processed_urls |-> processed_urls_count,
                    visited_urls |-> Cardinality(visited_urls),
                    found_urls |-> Len(urls),
                    skipped_urls |-> SumLen(skipped_urls),
                    redirects |-> Cardinality(redirects),
                    unreachable_urls |-> Len(unreachable_urls),
                    patterns_detected |-> Cardinality(massive_link_patterns)]]

\* crawler.rs:302-364: the report.
CrawlResult(loops) ==
    LET urls == dedup(sort(found_urls))
    IN  [kind |-> "ok",
         base_url |-> base_url,
         base_domain |-> base_domain,
         urls |-> urls,
         skipped_urls |-> skipped_urls,
         massive_link_patterns |-> massive_link_patterns,
         redirects |-> redirects,
         unreachable_urls |-> unreachable_urls,
         remaining_queue |-> Urls(queue),
         stats |-> [loops |-> loops,
                    processed_urls |-> processed_urls_count,
                    visited_urls |-> Cardinality(visited_urls),
                    found_urls |-> Len(urls),
                    skipped_urls |-> SumLen(skipped_urls),
                    redirects |-> Cardinality(redirects),
                    unreachable_urls |-> Len(unreachable_urls),
                    patterns_detected |-> Cardinality(massive_link_patterns)]]

\* crawler.rs:566-577: File::create, then serde_json::to_writer_pretty into
\* the file.  Either may fail: the first leaves the file as it was, the second
\* leaves a file that is not the report.
SaveOutcomes == {"Ok", "Io", "Json"}

\* str::replace of one character by another
Replace(str, from, to) ==
    [i \in 1..Len(str) |-> IF str[i] = from THEN to ELSE str[i]]

OutputDir ==
    << "o", "u", "t", "p", "u", "t", "/", "c", "r", "a", "w", "l", "e", "r", "/" >>

\* utils.rs:136-147
domain_to_filename(domain) ==
    OutputDir \o Replace(Replace(domain, ".", "_"), ":", "_")
        \o << ".", "j", "s", "o", "n" >>

\* The content of the file of that name.
FileAt(filename) == IF filename \in DOMAIN files THEN files[filename] ELSE NoFile

save_result(report, outcome) ==
    LET filename == domain_to_filename(report.base_domain)
    IN  CASE outcome = "Ok" ->
               [files |-> (filename :> report) @@ files, res |-> Ok(report)]
          [] outcome = "Io" -> [files |-> files, res |-> Err("Io")]
          [] outcome = "Json" ->
               [files |-> (filename :> PartialFile) @@ files, res |-> Err("Json")]

\* The report returned whatever became of saving it.
crawl_finish_unsaved ==
    /\ pc = "loop"
    /\ loop_count >= cfg.max_loops \/ queue = << >>
    /\ loop_count' = IF loop_count < cfg.max_loops THEN loop_count + 1 ELSE loop_count
    /\ \E outcome \in SaveOutcomes :
       \E saved \in { save_result(CrawlResult(loop_count'), outcome) } :
         /\ files' = saved.files
         /\ result' = CrawlResult(loop_count')
    /\ pc' = "done"
    /\ UNCHANGED << cfg, call_vars, base_url, base_domain, queue, visited_urls, found_urls,
                    skipped_urls, massive_link_patterns, redirects,
                    unreachable_urls, processed_urls_count, batch, workers,
                    requests, dropped_count, served, loader_vars >>

\* crawler.rs:129-138 and 302-391: the loop ends (max_loops used, or the queue
\* found empty after the counter was incremented), the report is built and
\* saved; crawl returns the report, or the error of save_result.
crawl_finish ==
    /\ pc = "loop"
    /\ loop_count >= cfg.max_loops \/ queue = << >>
    /\ loop_count' = IF loop_count < cfg.max_loops THEN loop_count + 1 ELSE loop_count
    /\ \E outcome \in SaveOutcomes :
       \E saved \in { save_result(CrawlResult(loop_count'), outcome) } :
         /\ files' = saved.files
         /\ result' = IF saved.res.ok THEN saved.res.val
                       ELSE [kind |-> "err", err |-> saved.res.err]
    /\ pc' = "done"
    /\ UNCHANGED << cfg, call_vars, base_url, base_domain, queue, visited_urls, found_urls,
                    skipped_urls, massive_link_patterns, redirects,
                    unreachable_urls, processed_urls_count, batch, workers,
                    requests, dropped_count, served, loader_vars >>

(***************************************************************************)
(* Spider::process_url: one future of the batch.  A future runs from one   *)
(* await to the next without interleaving; the awaits are the delay, the   *)
(* request and the read of the body.  buffer_unordered promises no order   *)
(* in which it polls the futures of a batch, so a future may take any of   *)
(* its steps, the first one included, before or after any step of another. *)
(***************************************************************************)
Inc(f, u) == IF u \in DOMAIN f THEN [f EXCEPT ![u] = @ + 1] ELSE f @@ (u :> 1)

Count(f, u) == IF u \in DOMAIN f THEN f[u] ELSE 0

\* process_url without the early return on an already visited URL.
process_url_begin_unchecked(i) ==
    /\ pc = "wait"
    /\ i \in 1..Len(workers)
    /\ workers[i].st = "start"
    /\ visited_urls' = visited_urls \cup {workers[i].url}
    /\ found_urls' = Append(found_urls, workers[i].url)
    /\ workers' = [workers EXCEPT ![i].st = "delay"]
    /\ UNCHANGED << cfg, call_vars, pc, base_url, base_domain, queue, skipped_urls,
                    massive_link_patterns, redirects, unreachable_urls,
                    loop_count, processed_urls_count, batch, result, requests, dropped_count,
                    served,
                    files, loader_vars >>

\* crawler.rs:407-424 and network.rs:72-77: the visited check and insertion,
\* the found list, and the start of fetch up to the delay.
process_url_begin(i) ==
    /\ pc = "wait"
    /\ i \in 1..Len(workers)
    /\ workers[i].st = "start"
    /\ LET url == workers[i].url
       IN  IF url \in visited_urls
           THEN /\ workers' = [workers EXCEPT ![i].st = "done",
                                              ![i].held = Guards(@, mark_visited_guards)]
                /\ dropped_count' = dropped_count + 1
                /\ UNCHANGED << visited_urls, found_urls, unreachable_urls >>
           ELSE /\ visited_urls' = visited_urls \cup {url}
                /\ found_urls' = Append(found_urls, url)
                /\ UNCHANGED dropped_count
                /\ IF ParseUrl(url).ok
                   THEN /\ workers' =
                                [workers EXCEPT
                                   ![i].st = "delay",
                                   ![i].held = Guards(@, mark_visited_guards
                                                           \o push_found_guards)]
                        /\ UNCHANGED unreachable_urls
                   ELSE /\ workers' =
                                [workers EXCEPT
                                   ![i].st = "done",
                                   ![i].held = Guards(@, mark_visited_guards
                                                           \o push_found_guards
                                                           \o unreachable_guards)]
                        /\ unreachable_urls' = Append(unreachable_urls, url)
    /\ UNCHANGED << cfg, call_vars, pc, base_url, base_domain, queue, skipped_urls,
                    massive_link_patterns, redirects, loop_count,
                    processed_urls_count, batch, result, requests, served,
                    files, loader_vars >>

\* network.rs:79-98: the delay is over, the request is built and sent.
fetch_send(i) ==
    /\ pc = "wait"
    /\ i \in 1..Len(workers)
    /\ workers[i].st = "delay"
    /\ requests' = Inc(requests, workers[i].url)
    /\ workers' = [workers EXCEPT ![i].st = "send"]
    /\ UNCHANGED << cfg, dropped_count, call_vars, pc, base_url, base_domain, queue, visited_urls,
                    found_urls, skipped_urls, massive_link_patterns, redirects,
                    unreachable_urls, loop_count, processed_urls_count, batch,
                    result, served,
                    files, loader_vars >>

\* HashMap::insert
map_insert(m, k, v) == { kv \in m : kv[1] # k } \cup { << k, v >> }

\* A failed request recorded and then tried again after another delay.
fetch_failed_retry(i) ==
    /\ pc = "wait"
    /\ i \in 1..Len(workers)
    /\ workers[i].st = "send"
    /\ unreachable_urls' = Append(unreachable_urls, workers[i].url)
    /\ workers' = [workers EXCEPT ![i].st = "delay"]
    /\ UNCHANGED << cfg, call_vars, pc, base_url, base_domain, queue, visited_urls,
                    found_urls, skipped_urls, massive_link_patterns, redirects,
                    loop_count, processed_urls_count, batch, result, requests, dropped_count, served,
                    files, loader_vars >>

\* A failed request that ends the whole crawl with its error.
fetch_failed_abort(i) ==
    /\ pc = "wait"
    /\ i \in 1..Len(workers)
    /\ workers[i].st = "send"
    /\ unreachable_urls' = Append(unreachable_urls, workers[i].url)
    /\ workers' = [workers EXCEPT ![i].st = "done"]
    /\ pc' = "done"
    /\ result' = [kind |-> "err", err |-> "NetworkError"]
    /\ UNCHANGED << cfg, call_vars, base_url, base_domain, queue, visited_urls,
                    found_urls, skipped_urls, massive_link_patterns, redirects,
                    loop_count, processed_urls_count, batch, requests, dropped_count, served,
                    files, loader_vars >>

\* A failed request that takes its URL out of the visited set again.
fetch_failed_unvisit(i) ==
    /\ pc = "wait"
    /\ i \in 1..Len(workers)
    /\ workers[i].st = "send"
    /\ unreachable_urls' = Append(unreachable_urls, workers[i].url)
    /\ visited_urls' = visited_urls \ {workers[i].url}
    /\ workers' = [workers EXCEPT ![i].st = "done"]
    /\ UNCHANGED << cfg, call_vars, pc, base_url, base_domain, queue,
                    found_urls, skipped_urls, massive_link_patterns, redirects,
                    loop_count, processed_urls_count, batch, result, requests, dropped_count, served,
                    files, loader_vars >>

\* network.rs:98-108 and crawler.rs:424-437: the request failed (transport, or
\* a status outside 2xx); the URL is recorded as unreachable.
fetch_failed(i) ==
    /\ pc = "wait"
    /\ i \in 1..Len(workers)
    /\ workers[i].st = "send"
    /\ unreachable_urls' = Append(unreachable_urls, workers[i].url)
    /\ workers' = [workers EXCEPT ![i].st = "done",
                                  ![i].held = Guards(@, unreachable_guards)]
    /\ UNCHANGED << cfg, call_vars, pc, base_url, base_domain, queue, visited_urls,
                    found_urls, skipped_urls, massive_link_patterns, redirects,
                    loop_count, processed_urls_count, batch, result, requests, dropped_count, served,
                    files, loader_vars >>

\* A response that is not HTML recorded as unreachable.
fetch_response_html_only(i) ==
    /\ pc = "wait"
    /\ i \in 1..Len(workers)
    /\ workers[i].st = "send"
    /\ \E final_url \in Finals(workers[i].url), html \in BOOLEAN :
         /\ redirects' = IF final_url # workers[i].url
                         THEN map_insert(redirects, workers[i].url, final_url)
                         ELSE redirects
         /\ unreachable_urls' = IF html THEN unreachable_urls
                                ELSE Append(unreachable_urls, workers[i].url)
         /\ workers' = [workers EXCEPT ![i].cur = final_url,
                                       ![i].st = IF html THEN "body" ELSE "done"]
    /\ UNCHANGED << cfg, call_vars, pc, base_url, base_domain, queue, visited_urls,
                    found_urls, skipped_urls, massive_link_patterns,
                    loop_count, processed_urls_count, batch,
                    result, requests, dropped_count, served,
                    files, loader_vars >>

\* A response whose redirect is recorded once its Content-Type was found to
\* name HTML.
fetch_response_redirect_html(i) ==
    /\ pc = "wait"
    /\ i \in 1..Len(workers)
    /\ workers[i].st = "send"
    /\ \E final_url \in Finals(workers[i].url), html \in BOOLEAN :
         /\ redirects' = IF html /\ final_url # workers[i].url
                         THEN map_insert(redirects, workers[i].url, final_url)
                         ELSE redirects
         /\ workers' = [workers EXCEPT ![i].cur = final_url,
                                       ![i].st = IF html THEN "body" ELSE "done"]
    /\ UNCHANGED << cfg, call_vars, pc, base_url, base_domain, queue, visited_urls,
                    found_urls, skipped_urls, massive_link_patterns,
                    unreachable_urls, loop_count, processed_urls_count, batch,
                    result, requests, dropped_count, served,
                    files, loader_vars >>

\* crawler.rs:439-463 and network.rs:112-128: a response arrived from
\* final_url; html says whether its Content-Type names HTML.
fetch_response(i) ==
    /\ pc = "wait"
    /\ i \in 1..Len(workers)
    /\ workers[i].st = "send"
    /\ \E final_url \in Finals(workers[i].url), html \in BOOLEAN :
         /\ redirects' = IF final_url # workers[i].url
                         THEN map_insert(redirects, workers[i].url, final_url)
                         ELSE redirects
         /\ workers' = [workers EXCEPT
                           ![i].cur = final_url,
                           ![i].st = IF html THEN "body" ELSE "done",
                           ![i].held = IF final_url # workers[i].url
                                       THEN Guards(@, redirect_guards)
                                       ELSE @]
    /\ UNCHANGED << cfg, call_vars, pc, base_url, base_domain, queue, visited_urls,
                    found_urls, skipped_urls, massive_link_patterns,
                    unreachable_urls, loop_count, processed_urls_count, batch,
                    result, requests, dropped_count, served,
                    files, loader_vars >>

\* crawler.rs:496-503
skip_href(href) ==
    \/ href = << >>
    \/ starts_with(href, << "#" >>)
    \/ starts_with(href, JAVASCRIPT)
    \/ starts_with(href, MAILTO)

\* should_add without the scan of the queue.
should_add_visited_only(absolute_url, visited, q) == absolute_url \notin visited

\* crawler.rs:528-545
should_add(absolute_url, visited, q) ==
    IF absolute_url \in visited THEN FALSE
    ELSE ~\E k \in 1..Len(q) : q[k].url = absolute_url

\* A link entry that gets the low priority whatever its path.
link_entry_low_priority(absolute_url, depth) == UrlEntry(absolute_url, depth + 1, 10)

\* crawler.rs:547-560
link_entry(absolute_url, depth) ==
    UrlEntry(absolute_url, depth + 1,
             IF is_priority_url(absolute_url, priority_paths) THEN 50 ELSE 10)

\* The link loop without the same-domain check.
RECURSIVE enqueue_links_any_domain(_, _, _, _, _, _)
enqueue_links_any_domain(q, hrefs, n, current_url, depth, visited) ==
    IF n = 0 THEN q
    ELSE LET before ==
                 enqueue_links_any_domain(q, hrefs, n - 1, current_url, depth, visited)
             href == hrefs[n]
             absolute_url == resolve_url(current_url, href)
         IN  IF skip_href(href) THEN before
             ELSE IF ~absolute_url.ok THEN before
             ELSE IF should_add(absolute_url.val, visited, before)
             THEN Append(before, link_entry(absolute_url.val, depth))
             ELSE before

\* crawler.rs:493-563: the queue after the first n hrefs of the page were
\* handled, in document order.
RECURSIVE enqueue_links(_, _, _, _, _, _)
enqueue_links(q, hrefs, n, current_url, depth, visited) ==
    IF n = 0 THEN q
    ELSE LET before == enqueue_links(q, hrefs, n - 1, current_url, depth, visited)
             href == hrefs[n]
             absolute_url == resolve_url(current_url, href)
             same_domain == is_same_domain(absolute_url.val, base_domain)
         IN  IF skip_href(href) THEN before
             ELSE IF ~absolute_url.ok THEN before
             ELSE IF ~same_domain.ok \/ ~same_domain.val THEN before
             ELSE IF should_add(absolute_url.val, visited, before)
             THEN Append(before, link_entry(absolute_url.val, depth))
             ELSE before

\* network.rs:128-129 and crawler.rs:461: reading the body failed.
body_failed(i) ==
    /\ pc = "wait"
    /\ i \in 1..Len(workers)
    /\ workers[i].st = "body"
    /\ workers' = [workers EXCEPT ![i].st = "done"]
    /\ UNCHANGED << cfg, call_vars, pc, base_url, base_domain, queue, visited_urls,
                    found_urls, skipped_urls, massive_link_patterns, redirects,
                    unreachable_urls, loop_count, processed_urls_count, batch,
                    result, requests, dropped_count, served,
                    files, loader_vars >>

\* crawler.rs:465-563: the body was read; its links are merged into the queue.
process_url_links(i) ==
    /\ pc = "wait"
    /\ i \in 1..Len(workers)
    /\ workers[i].st = "body"
    /\ \E hrefs \in Pages(workers[i].cur) :
         /\ queue' = enqueue_links(queue, hrefs, Len(hrefs), workers[i].cur,
                                   workers[i].depth, visited_urls)
         /\ served' = served \cup { << workers[i].url, workers[i].cur, hrefs >> }
    /\ workers' = [workers EXCEPT ![i].st = "done",
                                  ![i].held = Guards(@, link_guards)]
    /\ UNCHANGED << cfg, call_vars, pc, base_url, base_domain, visited_urls, found_urls,
                    skipped_urls, massive_link_patterns, redirects,
                    unreachable_urls, loop_count, processed_urls_count, batch,
                    result, requests, dropped_count,
                    files, loader_vars >>

Worker == 1..(MaxConcurrentBound + 1)

Next ==
    \/ crawl_start
    \/ crawl_next_batch
    \/ crawl_batch_done
    \/ crawl_finish
    \/ \E i \in Worker : process_url_begin(i)
    \/ \E i \in Worker : fetch_send(i)
    \/ \E i \in Worker : fetch_failed(i)
    \/ \E i \in Worker : fetch_response(i)
    \/ \E i \in Worker : body_failed(i)
    \/ \E i \in Worker : process_url_links(i)

Spec == Init /\ [][Next]_vars

\* Every fetch completes and the executor runs what is ready: a step that can
\* be taken is eventually taken.
FairSpec == Spec /\ WF_vars(Next)

(***************************************************************************)
(* Loader::crawl_all (spider/loader.rs).  The futures of the sites are      *)
(* polled one at a time by the task that runs crawl_all: the variables of   *)
(* Spider::crawl hold the crawl of the future being polled (current), and   *)
(* parked holds the crawls of the other futures in progress.                *)
(***************************************************************************)
MaxSitesBound == 2

\* char::is_whitespace, for the characters of the lines
Whitespace == {" ", "\t"}

\* str::trim
trim(line) ==
    LET kept == { i \in 1..Len(line) : line[i] \notin Whitespace }
    IN  IF kept = {} THEN << >>
        ELSE SubSeq(line, CHOOSE i \in kept : \A j \in kept : i <= j,
                          CHOOSE i \in kept : \A j \in kept : i >= j)

\* loader.rs:62
is_url_line(trimmed) == trimmed # << >> /\ ~starts_with(trimmed, << "#" >>)

\* A file that can be opened, with its lines as BufRead::lines gives them.
TextFile(lines) == [kind |-> "text", lines |-> lines]

\* load_urls that looks for the '#' before it trims the line.
load_urls_untrimmed_comment(f) ==
    IF f = NoFile THEN Err("Io")
    ELSE LET kept == SelectSeq(f.lines,
                               LAMBDA l : trim(l) # << >> /\ ~starts_with(l, << "#" >>))
         IN  Ok([i \in 1..Len(kept) |-> trim(kept[i])])

\* load_urls that takes a file it cannot open for an empty one.
load_urls_missing_as_empty(f) ==
    IF f = NoFile THEN Ok(<< >>)
    ELSE Ok(SelectSeq([i \in 1..Len(f.lines) |-> trim(f.lines[i])], is_url_line))

\* loader.rs:44-68
load_urls(f) ==
    IF f = NoFile THEN Err("Io")
    ELSE Ok(SelectSeq([i \in 1..Len(f.lines) |-> trim(f.lines[i])], is_url_line))

SeedX == UrlX
SeedXB == UrlX \o << "b" >>
\* The files url_file_path may name: none, an empty one, one with a comment,
\* an empty line and padded lines, and one with a seed that is no URL and two
\* seeds of one domain.
UrlFiles ==
    { NoFile,
      TextFile(<< >>),
      TextFile(<< HTTP \o << "e", ".", "c" >>, << "#", " ", "c" >>, << >>,
                  << " " >> \o SeedX \o << " " >> >>),
      TextFile(<< SeedBad, SeedX, SeedXB >>) }

\* The configurations of the batch command the sites are crawled with.
LoaderConfigs ==
    { c \in Configs : c.max_depth = 2 /\ c.max_loops = 2 /\ c.pattern_threshold = 3 }

\* crawler.rs:109-127: the state of a crawl that was not polled yet.
NewCrawl ==
    [pc |-> "new", base_url |-> << >>, base_domain |-> << >>, queue |-> << >>,
     visited_urls |-> {}, found_urls |-> << >>,
     skipped_urls |-> [r \in Range(Reasons) |-> << >>],
     massive_link_patterns |-> {}, redirects |-> {}, unreachable_urls |-> << >>,
     loop_count |-> 0, processed_urls_count |-> 0, batch |-> << >>,
     workers |-> << >>, result |-> NoResult]

\* No crawl: the future was not created yet, or it completed and was dropped.
NoCrawl == [NewCrawl EXCEPT !.pc = "none"]

\* The crawl of the future being polled.
CrawlState ==
    [pc |-> pc, base_url |-> base_url, base_domain |-> base_domain,
     queue |-> queue, visited_urls |-> visited_urls, found_urls |-> found_urls,
     skipped_urls |-> skipped_urls,
     massive_link_patterns |-> massive_link_patterns, redirects |-> redirects,
     unreachable_urls |-> unreachable_urls, loop_count |-> loop_count,
     processed_urls_count |-> processed_urls_count, batch |-> batch,
     workers |-> workers, result |-> result]

\* The future of crawl state s becomes the one being polled.
Resume(s) ==
    /\ pc' = s.pc
    /\ base_url' = s.base_url
    /\ base_domain' = s.base_domain
    /\ queue' = s.queue
    /\ visited_urls' = s.visited_urls
    /\ found_urls' = s.found_urls
    /\ skipped_urls' = s.skipped_urls
    /\ massive_link_patterns' = s.massive_link_patterns
    /\ redirects' = s.redirects
    /\ unreachable_urls' = s.unreachable_urls
    /\ loop_count' = s.loop_count
    /\ processed_urls_count' = s.processed_urls_count
    /\ batch' = s.batch
    /\ workers' = s.workers
    /\ result' = s.result

spider_vars ==
    << pc, base_url, base_domain, queue, visited_urls, found_urls, skipped_urls,
       massive_link_patterns, redirects, unreachable_urls, loop_count,
       processed_urls_count, batch, workers, result >>

LoaderInit ==
    /\ cfg \in LoaderConfigs
    /\ pc = NoCrawl.pc
    /\ base_url = NoCrawl.base_url
    /\ base_domain = NoCrawl.base_domain
    /\ queue = NoCrawl.queue
    /\ visited_urls = NoCrawl.visited_urls
    /\ found_urls = NoCrawl.found_urls
    /\ skipped_urls = NoCrawl.skipped_urls
    /\ massive_link_patterns = NoCrawl.massive_link_patterns
    /\ redirects = NoCrawl.redirects
    /\ unreachable_urls = NoCrawl.unreachable_urls
    /\ loop_count = NoCrawl.loop_count
    /\ processed_urls_count = NoCrawl.processed_urls_count
    /\ batch = NoCrawl.batch
    /\ workers = NoCrawl.workers
    /\ result = NoCrawl.result
    /\ requests = << >>
    /\ dropped_count = 0
    /\ served = {}
    /\ files = << >>
    /\ url_file \in UrlFiles
    /\ max_concurrent_sites \in 0..MaxSitesBound
    /\ loader_pc = "new"
    /\ seed_urls = << >>
    /\ next_url = 1
    /\ current = 0
    /\ parked = << >>
    /\ results = << >>
    /\ processed = 0
    /\ crawl_all_result = NoResult
    /\ call = NoCall
    /\ ret = NoResult

\* loader.rs:71-83: the seeds are loaded, or crawl_all returns the error.
crawl_all_start ==
    /\ loader_pc = "new"
    /\ LET loaded == load_urls(url_file)
       IN  IF loaded.ok
           THEN /\ seed_urls' = loaded.val
                /\ loader_pc' = "run"
                /\ UNCHANGED crawl_all_result
           ELSE /\ loader_pc' = "done"
                /\ crawl_all_result' = [kind |-> "err", err |-> loaded.err]
                /\ UNCHANGED seed_urls
    /\ UNCHANGED << cfg, call_vars, spider_vars, requests, dropped_count, served, files, url_file,
                    max_concurrent_sites, next_url, current, parked, results,
                    processed >>

\* The futures buffer_unordered holds.
InProgress == DOMAIN parked \cup (IF current = 0 THEN {} ELSE {current})

\* Futures taken from the iterator without regard to the limit.
buffer_unordered_unlimited ==
    /\ loader_pc = "run"
    /\ next_url <= Len(seed_urls)
    /\ parked' = (next_url :> NewCrawl) @@ parked
    /\ next_url' = next_url + 1
    /\ UNCHANGED << cfg, call_vars, spider_vars, requests, dropped_count, served, files, url_file,
                    max_concurrent_sites, loader_pc, seed_urls, current, results,
                    processed, crawl_all_result >>

\* loader.rs:86-90 and 110-111: buffer_unordered takes the next future from
\* the iterator while fewer than max_concurrent_sites are in progress; the
\* closure makes a Spider for the seed.
buffer_unordered ==
    /\ loader_pc = "run"
    /\ next_url <= Len(seed_urls)
    /\ Cardinality(InProgress) < max_concurrent_sites
    /\ parked' = (next_url :> NewCrawl) @@ parked
    /\ next_url' = next_url + 1
    /\ UNCHANGED << cfg, call_vars, spider_vars, requests, dropped_count, served, files, url_file,
                    max_concurrent_sites, loader_pc, seed_urls, current, results,
                    processed, crawl_all_result >>

\* What is parked once the future of site k is taken up.
park(k) ==
    LET rest == [j \in DOMAIN parked \ {k} |-> parked[j]]
    IN  IF current = 0 THEN rest ELSE (current :> CrawlState) @@ rest

\* One Visited Ledger kept for all sites.
poll_shared_ledger(k) ==
    /\ loader_pc = "run"
    /\ k \in DOMAIN parked
    /\ Resume([parked[k] EXCEPT !.visited_urls = visited_urls])
    /\ current' = k
    /\ parked' = park(k)
    /\ UNCHANGED << cfg, call_vars, requests, dropped_count, served, files, url_file, max_concurrent_sites,
                    loader_pc, seed_urls, next_url, results, processed,
                    crawl_all_result >>

\* The future being polled is pending at an await, and the future of site k
\* is polled next.
poll(k) ==
    /\ loader_pc = "run"
    /\ k \in DOMAIN parked
    /\ Resume(parked[k])
    /\ current' = k
    /\ parked' = park(k)
    /\ UNCHANGED << cfg, call_vars, requests, dropped_count, served, files, url_file, max_concurrent_sites,
                    loader_pc, seed_urls, next_url, results, processed,
                    crawl_all_result >>

\* loader.rs:91: spider.crawl(&url)
spider_crawl == current # 0 /\ crawl(seed_urls[current])

\* loader.rs:91-98: the message for what crawl returned.
outcome(url, res) ==
    IF res.kind = "ok"
    THEN [ok |-> TRUE, url |-> url, found |-> Len(res.urls)]
    ELSE [ok |-> FALSE, url |-> url, err |-> res.err]

\* The error of a site returned from crawl_all, the other sites dropped.
site_done_propagate ==
    /\ loader_pc = "run"
    /\ current # 0
    /\ pc = "done"
    /\ IF result.kind = "ok"
       THEN /\ results' = Append(results, outcome(seed_urls[current], result))
            /\ UNCHANGED << loader_pc, crawl_all_result, parked >>
       ELSE /\ loader_pc' = "done"
            /\ crawl_all_result' = [kind |-> "err", err |-> result.err]
            /\ parked' = << >>
            /\ UNCHANGED results
    /\ processed' = processed + 1
    /\ current' = 0
    /\ Resume(NoCrawl)
    /\ UNCHANGED << cfg, call_vars, requests, dropped_count, served, files, url_file, max_concurrent_sites,
                    seed_urls, next_url >>

\* loader.rs:91-113: crawl returned; the message is made, the progress counter
\* incremented, and the outcome of the future collected.
site_done ==
    /\ loader_pc = "run"
    /\ current # 0
    /\ pc = "done"
    /\ results' = Append(results, outcome(seed_urls[current], result))
    /\ processed' = processed + 1
    /\ current' = 0
    /\ Resume(NoCrawl)
    /\ UNCHANGED << cfg, call_vars, requests, dropped_count, served, files, url_file, max_concurrent_sites,
                    loader_pc, seed_urls, next_url, parked, crawl_all_result >>

\* loader.rs:110-117: the stream ends once the iterator is exhausted and no
\* future is in progress; with a limit of 0 buffer_unordered never takes from
\* the iterator and never sees its end.
crawl_all_collect ==
    /\ loader_pc = "run"
    /\ max_concurrent_sites > 0
    /\ next_url > Len(seed_urls)
    /\ InProgress = {}
    /\ loader_pc' = "done"
    /\ crawl_all_result' = [kind |-> "ok", results |-> results]
    /\ UNCHANGED << cfg, call_vars, spider_vars, requests, dropped_count, served, files, url_file,
                    max_concurrent_sites, seed_urls, next_url, current, parked,
                    results, processed >>

Site == 1..(MaxSitesBound + 2)

LoaderNext ==
    \/ crawl_all_start
    \/ buffer_unordered
    \/ \E k \in Site : poll(k)
    \/ spider_crawl
    \/ crawl_next_batch
    \/ crawl_batch_done
    \/ crawl_finish
    \/ \E i \in Worker : process_url_begin(i)
    \/ \E i \in Worker : fetch_send(i)
    \/ \E i \in Worker : fetch_failed(i)
    \/ \E i \in Worker : fetch_response(i)
    \/ \E i \in Worker : body_failed(i)
    \/ \E i \in Worker : process_url_links(i)
    \/ site_done
    \/ crawl_all_collect

LoaderSpec == LoaderInit /\ [][LoaderNext]_vars

(***************************************************************************)
(* The functions of utils.rs and loader.rs called on their own, as their   *)
(* unit tests call them: call holds the function and its arguments, ret    *)
(* what it returned.                                                       *)
(***************************************************************************)
MaxListBound == 3

\* The sequences over set S of length up to n.
SeqsUpTo(S, n) == UNION { [1..k -> S] : k \in 0..n }

Returned(v) == [kind |-> "returned", val |-> v]

\* Option<String>
None == [some |-> FALSE]
Some(v) == [some |-> TRUE, val |-> v]

\* URL strings with a digit run at the end, in the middle, at the start, with
\* two digit runs, and without a digit.
DetectUrls ==
    { << "a", "1" >>, << "a", "2" >>, << "a", "1", "2", "b" >>, << "b", "7" >>,
      << "3", "x", "4" >>, << "c" >> }

DetectCalls ==
    [fn : {"detect_massive_links_pattern"},
     urls : SeqsUpTo(DetectUrls, MaxListBound),
     threshold : 0..(MaxListBound + 1)]

\* Lines: empty, blank, comments, a padded comment, and seeds with padding,
\* with a tab, with a space inside and with a '#' inside.
Lines ==
    { << >>, << " " >>, << "#", "c" >>, << " ", "#", "c", " " >>, << "u" >>,
      << " ", "u", " " >>, << "\t", "u" >>, << "u", " ", "v" >>, << "u", "#" >> }

LoadCalls ==
    [fn : {"load_urls"},
     file : { TextFile(lines) : lines \in SeqsUpTo(Lines, MaxListBound) } \cup {NoFile}]

\* URLs of the base domain, with www., of a subdomain, of a sibling
\* subdomain, of a domain that only ends with the same letters, of other
\* domains, without a host, and a string that is no URL.
DomainUrls ==
    { Home, HTTP \o WWW \o << "e", ".", "c", "/", "a" >>,
      HTTP \o WWW \o WWW \o << "e", ".", "c" >>, UrlD,
      HTTP \o << "o", ".", "e", ".", "c", "/" >>,
      HTTP \o << "o", ".", "d", ".", "e", ".", "c", "/" >>,
      HTTP \o << "d", "e", ".", "c", "/" >>,
      HTTP \o << "e", ".", "c", ".", "x", "/" >>, UrlX, SeedNoHost, SeedBad }

BaseDomains ==
    { << "e", ".", "c" >>, << "d", ".", "e", ".", "c" >>, WWW \o << "e", ".", "c" >>,
      << "d", "e", ".", "c" >>, << "x", ".", "c" >>, << "c" >>, << >> }

DomainCalls == [fn : {"is_same_domain"}, url : DomainUrls, base_domain : BaseDomains]

\* Entries for the filter closure of the batch (crawler.rs:167-269): plain,
\* skipped by path, skipped by subdomain, and URLs the subdomain check fails
\* on (no host, with and without the skipped path; not a URL).
FilterUrls ==
    { UrlA, UrlK1, UrlD, SeedNoHost, MAILTO \o << "/", "k", "/" >>, SeedBad }

FilterEntries == { UrlEntry(u, d, 10) : u \in FilterUrls, d \in 0..MaxDepthBound }

FilterPatterns == { {}, { Home \o << "k", "/", "*" >> }, { << "*", "c" >> } }

FilterCalls == [fn : {"filter"}, entry : FilterEntries, patterns : FilterPatterns]

\* Delays in milliseconds; min_request_delay_ms and max_request_delay_ms are
\* taken from the command line as they are (main.rs:57-58, 95-96).
MaxDelayBound == 2

DelayCalls ==
    [fn : {"apply_delay"}, min_request_delay_ms : 0..MaxDelayBound,
     max_request_delay_ms : 0..MaxDelayBound]

\* network.rs:61-69: gen_range over min..=max gives a value of the range, and
\* panics when the range is empty.
Slept(delay_ms) == [kind |-> "slept", delay_ms |-> delay_ms]
Panicked == [kind |-> "panic", delay_ms |-> 0]

apply_delay(min, max) ==
    IF min > max THEN {Panicked} ELSE { Slept(delay_ms) : delay_ms \in min..max }

\* crawler.rs:132-152: the guard of the queue lives in the block that selects
\* the batch.
loop_head_guards == << Lock("queue"), Drop("queue") >>

\* crawler.rs:161: a temporary guard for the insertion of the pattern.
pattern_guards == << Lock("massive_link_patterns"), Drop("massive_link_patterns") >>

\* crawler.rs:170-177, 194-201, 207-214, 224-231: the guard of the skip map
\* lives in the block that pushes the URL.
skip_guards == << Lock("skipped_urls"), Drop("skipped_urls") >>

\* crawler.rs:280-286: one temporary guard after the other.
stats_guards ==
    << Lock("queue"), Drop("queue"), Lock("visited_urls"), Drop("visited_urls"),
       Lock("found_urls"), Drop("found_urls"), Lock("skipped_urls"),
       Drop("skipped_urls"), Lock("massive_link_patterns"),
       Drop("massive_link_patterns"), Lock("redirects"), Drop("redirects"),
       Lock("unreachable_urls"), Drop("unreachable_urls") >>

\* The lock operations of process_url when the fetch fails, and when it
\* succeeds with a redirect and a link to enqueue.
process_url_failed_guards == mark_visited_guards \o push_found_guards \o unreachable_guards

process_url_guards ==
    mark_visited_guards \o push_found_guards \o redirect_guards \o link_guards

\* The lock operations of one iteration of the loop of crawl.
crawl_loop_guards ==
    loop_head_guards \o pattern_guards \o filter_guards \o skip_guards \o stats_guards

\* The futures of a batch and the loop, run as threads that may interleave
\* at every lock operation.
LockCalls ==
    [fn : {"locks"},
     programs : { w \o << crawl_loop_guards >> :
                    w \in [1..MaxConcurrentBound ->
                             {process_url_failed_guards, process_url_guards}] }]

\* Numbered URL strings without and with a star before the number, for the
\* detection of crawler.rs:154-161 followed by the filter of 181-190.
StarUrls ==
    { << "a", "1" >>, << "a", "2" >>, << "*", "/", "1" >>, << "*", "/", "2" >> }

RoundTripCalls ==
    [fn : {"detect_then_filter"}, urls : SeqsUpTo(StarUrls, MaxListBound),
     threshold : {2}]

Calls ==
    DetectCalls \cup LoadCalls \cup DomainCalls \cup FilterCalls \cup DelayCalls
        \cup LockCalls \cup RoundTripCalls

FnInit ==
    /\ call \in Calls
    /\ ret = NoResult
    /\ cfg = CHOOSE c \in LoaderConfigs : c.max_concurrent = 0
    /\ pc = NoCrawl.pc
    /\ base_url = NoCrawl.base_url
    /\ base_domain = NoCrawl.base_domain
    /\ queue = NoCrawl.queue
    /\ visited_urls = NoCrawl.visited_urls
    /\ found_urls = NoCrawl.found_urls
    /\ skipped_urls = NoCrawl.skipped_urls
    /\ massive_link_patterns = NoCrawl.massive_link_patterns
    /\ redirects = NoCrawl.redirects
    /\ unreachable_urls = NoCrawl.unreachable_urls
    /\ loop_count = NoCrawl.loop_count
    /\ processed_urls_count = NoCrawl.processed_urls_count
    /\ batch = NoCrawl.batch
    /\ workers = NoCrawl.workers
    /\ result = NoCrawl.result
    /\ requests = << >>
    /\ dropped_count = 0
    /\ served = {}
    /\ files = << >>
    /\ url_file = NoFile
    /\ max_concurrent_sites = 0
    /\ loader_pc = "none"
    /\ seed_urls = << >>
    /\ next_url = 1
    /\ current = 0
    /\ parked = << >>
    /\ results = << >>
    /\ processed = 0
    /\ crawl_all_result = NoResult

\* utils.rs:105-133
call_detect_massive_links_pattern ==
    /\ call.fn = "detect_massive_links_pattern"
    /\ ret = NoResult
    /\ \E found \in { detect_massive_links_pattern(call.urls, call.threshold) } :
           \/ found = {} /\ ret' = Returned(None)
           \/ \E pattern \in found : ret' = Returned(Some(pattern))
    /\ UNCHANGED << cfg, spider_vars, requests, dropped_count, served, files, loader_vars, call >>

\* loader.rs:44-68
call_load_urls ==
    /\ call.fn = "load_urls"
    /\ ret = NoResult
    /\ ret' = Returned(load_urls(call.file))
    /\ UNCHANGED << cfg, spider_vars, requests, dropped_count, served, files, loader_vars, call >>

\* utils.rs:28-53
call_is_same_domain ==
    /\ call.fn = "is_same_domain"
    /\ ret = NoResult
    /\ ret' = Returned(is_same_domain(call.url, call.base_domain))
    /\ UNCHANGED << cfg, spider_vars, requests, dropped_count, served, files, loader_vars, call >>

\* crawler.rs:167-269: the closure of the batch applied to one entry: what it
\* records in the skip map and the futures it creates.
call_filter ==
    /\ call.fn = "filter"
    /\ ret = NoResult
    /\ ret' = Returned([skipped |-> skip_batch(skipped_urls, << call.entry >>, 1,
                                               call.patterns),
                        futures |-> spawn(<< call.entry >>, call.patterns)])
    /\ UNCHANGED << cfg, spider_vars, requests, dropped_count, served, files, loader_vars, call >>

\* network.rs:61-69
call_apply_delay ==
    /\ call.fn = "apply_delay"
    /\ ret = NoResult
    /\ \E slept \in apply_delay(call.min_request_delay_ms, call.max_request_delay_ms) :
           ret' = Returned(slept)
    /\ UNCHANGED << cfg, spider_vars, requests, dropped_count, served, files, loader_vars, call >>

\* The threads before their first operation.
call_locks ==
    /\ call.fn = "locks"
    /\ ret = NoResult
    /\ ret' = [kind |-> "running",
               at |-> [t \in 1..Len(call.programs) |-> 1],
               held |-> [t \in 1..Len(call.programs) |-> << >>]]
    /\ UNCHANGED << cfg, spider_vars, requests, dropped_count, served, files,
                    loader_vars, call >>

\* Thread t is at a lock operation.
AtOp(t) == ret.at[t] <= Len(call.programs[t])

\* Mutex::lock returns when no guard of the mutex is alive, in any thread.
CanStep(t) ==
    /\ AtOp(t)
    /\ LET this == call.programs[t][ret.at[t]]
       IN  this.op = "lock" =>
               \A o \in 1..Len(call.programs) :
                   \A k \in 1..Len(ret.held[o]) : ret.held[o][k] # this.m

\* Thread t takes its next lock operation: the guards it holds, in the order
\* it took them.
lock_step(t) ==
    /\ call.fn = "locks"
    /\ ret # NoResult
    /\ t \in 1..Len(call.programs)
    /\ CanStep(t)
    /\ LET this == call.programs[t][ret.at[t]]
       IN  ret' = [ret EXCEPT
                     !.at[t] = @ + 1,
                     !.held[t] = IF this.op = "lock" THEN Append(@, this.m)
                                 ELSE SelectSeq(@, LAMBDA m : m # this.m)]
    /\ UNCHANGED << cfg, spider_vars, requests, dropped_count, served, files,
                    loader_vars, call >>

Thread == 1..(MaxConcurrentBound + 2)

\* crawler.rs:154-161 and 181-190: the pattern detected in the batch, and the
\* URLs of the batch the filter's closure matches against it.
call_detect_then_filter ==
    /\ call.fn = "detect_then_filter"
    /\ ret = NoResult
    /\ \E found \in { detect_massive_links_pattern(call.urls, call.threshold) } :
           \/ found = {} /\ ret' = Returned([pattern |-> None, matched |-> {}])
           \/ \E pattern \in found :
                  ret' = Returned([pattern |-> Some(pattern),
                                   matched |-> { i \in 1..Len(call.urls) :
                                                   PatternMatches(pattern, call.urls[i]) }])
    /\ UNCHANGED << cfg, spider_vars, requests, dropped_count, served, files,
                    loader_vars, call >>

FnNext ==
    \/ call_detect_then_filter
    \/ call_locks
    \/ \E t \in Thread : lock_step(t)
    \/ call_detect_massive_links_pattern
    \/ call_load_urls
    \/ call_is_same_domain
    \/ call_filter
    \/ call_apply_delay

FnSpec == FnInit /\ [][FnNext]_vars

(***************************************************************************)
(* Properties                                                              *)
(***************************************************************************)
\* The file save_result writes the report of the crawl to.
report_file == FileAt(domain_to_filename(base_domain))

AllSkipped == UNION { Range(skipped_urls[r]) : r \in Range(Reasons) }

Distinct(seq) == \A i, j \in 1..Len(seq) : i # j => seq[i] # seq[j]

IsPrefix(s, t) == Len(s) <= Len(t) /\ SubSeq(t, 1, Len(s)) = s

\* C1: within one crawl, under every interleaving of the batch's workers and
\* across all loop iterations, no URL has more than one request sent for it.
C1_AtMostOnceFetch == \A u \in DOMAIN requests : requests[u] <= 1

\* A second entry for a URL that was already requested stands at the visited
\* check of process_url.
C1_Witness ==
    \E i \in 1..Len(workers) :
        /\ workers[i].st = "start"
        /\ workers[i].url \in visited_urls
        /\ Count(requests, workers[i].url) = 1

\* C2: at termination no URL is in both the report's urls and its
\* unreachable_urls, URLs whose fetch failed included.
C2_UrlsDisjointFromUnreachable ==
    result.kind = "ok" =>
        Range(result.urls) \cap Range(result.unreachable_urls) = {}

\* The scenario of C3: max_depth = 1, max_loops = 1, and the seed's page is the
\* document with two same-domain links and one cross-domain link.
C3_Scenario ==
    /\ result.kind = "ok"
    /\ cfg.max_depth = 1
    /\ cfg.max_loops = 1
    /\ << Home, Home, PageHome1 >> \in served

\* C3 as stated: in the scenario the final urls list contains the seed and
\* both resolved same-domain links.
C3_Original == C3_Scenario => {Home, UrlA, UrlP} \subseteq Range(result.urls)

\* C3, amended: in the scenario the final urls list is the seed alone; the two
\* resolved same-domain links are what remaining_queue holds, and the
\* cross-domain link is in neither.
C3_Amended ==
    C3_Scenario =>
        /\ result.urls = << Home >>
        /\ result.remaining_queue = << UrlA, UrlP >>

C3_Witness == C3_Scenario

C5_UrlsSortedUnique ==
    result.kind = "ok" =>
        \A i, j \in 1..Len(result.urls) :
            i < j => StrLess(result.urls[i], result.urls[j])

\* A report whose found list was not in order before the sort.
C5_Witness ==
    /\ result.kind = "ok"
    /\ Len(result.urls) >= 3
    /\ found_urls # result.urls

\* C6: if every fetch completes, every crawl returns (its report, or the error
\* of saving it), the loop counter never exceeds max_loops, and a loop head
\* that finds the queue empty ends the crawl.
C6_Termination ==
    /\ <>(pc = "done" /\ result # NoResult)
    /\ [](loop_count <= cfg.max_loops)
    /\ [][pc = "loop" /\ queue = << >> => pc' = "done"]_vars

\* A step of the loop driver that selects a batch.
Selects == loop_count' # loop_count /\ pc' = "wait"

\* C7: the wait for a batch ends only when every future of the batch is done,
\* a batch is selected only with no future of an earlier batch left, and while
\* a batch runs the queue only grows at its tail, so that every entry the
\* batch enqueued is in the queue at the next selection.
C7_NeverPipelined ==
    [][/\ pc = "wait" /\ pc' # "wait" => all_done
       /\ Selects => pc = "loop" /\ workers = << >>
       /\ pc = "wait" => IsPrefix(queue, queue')]_vars

\* The loop head is about to select a batch after an earlier one has run.
C7_Witness ==
    /\ pc = "loop"
    /\ loop_count >= 1
    /\ loop_count < cfg.max_loops
    /\ Len(queue) >= 2

CountIn(seq, e) == Cardinality({ i \in 1..Len(seq) : seq[i] = e })

\* C8: a selection takes min(max_concurrent, queue length) entries, none of
\* lower priority than an entry it leaves, and batch plus remainder are the
\* entries the queue held, each as often as before.
C8_BatchSelection ==
    [][Selects =>
        /\ Len(batch') = Min(cfg.max_concurrent, Len(queue))
        /\ \A i \in 1..Len(batch'), j \in 1..Len(queue') :
               batch'[i].priority >= queue'[j].priority
        /\ \A e \in Range(queue) \cup Range(batch' \o queue') :
               CountIn(batch' \o queue', e) = CountIn(queue, e)]_vars

\* A selection that took an entry of higher priority and left one behind.
C8_Witness ==
    /\ pc = "wait"
    /\ \E i \in 1..Len(batch), j \in 1..Len(queue) :
           batch[i].priority > queue[j].priority

\* The reason C9 gives an entry: the first filter, in the stated order, that
\* matches it.
C9_FirstMatch(e, patterns) ==
    LET depth == e.depth >= cfg.max_depth
        trap == matches_pattern(patterns, e.url)
        skip == should_skip_url(e.url, skip_patterns)
        sub == LET r == should_skip_subdomain(e.url, skip_subdomain_patterns)
               IN  r.ok /\ r.val
    IN  CASE depth -> "max_depth_exceeded"
          [] ~depth /\ trap -> "massive_link_pattern"
          [] ~depth /\ ~trap /\ skip -> "skip_pattern"
          [] ~depth /\ ~trap /\ ~skip /\ sub -> "subdomain_pattern"
          [] OTHER -> "dispatch"

\* The URLs of the entries of b whose first matching filter is r, in order.
RECURSIVE C9_UrlsFor(_, _, _)
C9_UrlsFor(b, r, patterns) ==
    IF b = << >> THEN << >>
    ELSE LET before == C9_UrlsFor(SubSeq(b, 1, Len(b) - 1), r, patterns)
         IN  IF C9_FirstMatch(b[Len(b)], patterns) = r
             THEN Append(before, b[Len(b)].url)
             ELSE before

\* C9: the filters run in the order max_depth_exceeded, massive_link_pattern,
\* skip_pattern, subdomain_pattern and stop at the first match: each entry of
\* the batch is recorded under the first reason that matches it and under no
\* other, the entries no filter matches are the ones dispatched, and the
\* filters add nothing to the Visited Ledger, the found list or the requests.
C9_FilterOrder ==
    [][Selects =>
        /\ \A r \in Range(Reasons) :
               skipped_urls'[r] =
                   skipped_urls[r] \o C9_UrlsFor(batch', r, massive_link_patterns')
        /\ Urls(workers') = C9_UrlsFor(batch', "dispatch", massive_link_patterns')
        /\ UNCHANGED << visited_urls, found_urls, requests >>]_vars

\* An entry that matches both the trap pattern and a skip pattern, recorded
\* under massive_link_pattern.
C9_Witness ==
    \E u \in Range(skipped_urls["massive_link_pattern"]) :
        should_skip_url(u, skip_patterns)

\* C10: once a URL is recorded in skipped_urls it is never again enqueued,
\* selected into a batch, or requested.
C10_SkippedIsTerminal ==
    [][\A u \in AllSkipped :
          /\ \A k \in 1..Len(queue') :
                 queue'[k].url = u => queue'[k] \in Range(queue)
          /\ Selects => u \notin Range(Urls(batch'))
          /\ Count(requests', u) = Count(requests, u)]_vars

\* The URLs whose document was read and its links handled.
Expanded == { d[1] : d \in served }

\* C11: a failed fetch appends the URL of its worker to unreachable_urls and
\* ends the worker, with the queue as it was; no URL is in unreachable_urls
\* twice, none had more than one request sent, and none had its links handled.
C11_NoRetries ==
    [][/\ unreachable_urls' # unreachable_urls =>
              \E i \in 1..Len(workers) :
                  /\ workers[i].st \in {"start", "send"}
                  /\ unreachable_urls' = Append(unreachable_urls, workers[i].url)
                  /\ workers' = [workers EXCEPT ![i].st = "done"]
                  /\ queue' = queue
       /\ Distinct(unreachable_urls')
       /\ \A u \in Range(unreachable_urls') :
              Count(requests', u) <= 1 /\ u \notin Expanded']_vars

\* A crawl has ended with a URL whose one request failed, and another URL
\* whose document was read.
C11_Witness ==
    /\ pc = "done"
    /\ \E u \in Range(unreachable_urls) : Count(requests, u) = 1
    /\ Expanded # {}

\* Worker w got a response and ended without handling links: extract_html
\* failed.
NoHtml(w) == w.st = "done" /\ w.cur # << >> /\ w.url \notin Expanded

\* C12: when the response of a URL is not HTML its worker ends there: the
\* step adds nothing to unreachable_urls and nothing to the queue, the URL
\* stays in the Visited Ledger and out of unreachable_urls, and the worker
\* takes no further step.
C12_NonHtmlSkipped ==
    [][\A i \in 1..Len(workers') :
          /\ (pc = "wait" /\ workers[i].st = "send" /\ NoHtml(workers'[i])) =>
                 /\ unreachable_urls' = unreachable_urls
                 /\ queue' = queue
          /\ NoHtml(workers'[i]) =>
                 /\ workers'[i].url \in visited_urls'
                 /\ workers'[i].url \notin Range(unreachable_urls')
          /\ (pc = "wait" /\ workers[i].st = "done") =>
                 workers'[i] = workers[i]]_vars

\* A worker ended on a response that is not HTML while another worker of the
\* batch read its document.
C12_Witness ==
    \E i, j \in 1..Len(workers) :
        /\ NoHtml(workers[i])
        /\ workers[j].url \in Expanded

\* The seed was accepted: crawl got past extract_base_domain and normalize_url.
SeedAccepted == base_url # << >>

\* The URLs the crawl knows: queued, in the running batch, visited or skipped.
Known ==
    Range(Urls(queue)) \cup Range(Urls(batch)) \cup visited_urls \cup AllSkipped

\* C13: a worker that ends, on a failed fetch, on a response that is not HTML
\* or otherwise, leaves the crawl waiting for its batch with the other workers,
\* the batch and the loop counter as they were and no result returned; the
\* links that follow one that fails to resolve or to pass the domain check are
\* still handled; and a crawl whose seed was accepted returns its report
\* unless saving it failed.
C13_FailuresContained ==
    [][/\ \A i \in 1..Len(workers') :
              (pc = "wait" /\ workers[i].st # "done" /\ workers'[i].st = "done") =>
                  /\ pc' = "wait"
                  /\ result' = NoResult
                  /\ batch' = batch
                  /\ loop_count' = loop_count
                  /\ \A j \in 1..Len(workers) : j # i => workers'[j] = workers[j]
       /\ << UrlA, UrlA, PageA >> \in served' => UrlP \in Known'
       /\ (pc' = "done" /\ SeedAccepted' /\ result'.kind = "err") =>
              report_file' # CrawlResult(loop_count')]_vars

\* A crawl returned its report after the document with the two bad links was
\* read and another URL of the same batch ended without its document.
C13_Witness ==
    /\ pc = "done"
    /\ result.kind = "ok"
    /\ << UrlA, UrlA, PageA >> \in served
    /\ UrlP \in visited_urls \ Expanded
    /\ result.stats.loops = 2

\* C14: a crawl whose seed was accepted returns its report exactly when the
\* report was written to the file; when File::create or the serialization
\* failed it returns that error, and it returns no other error.
C14_PersistenceFailure ==
    (pc = "done" /\ SeedAccepted) =>
        /\ result.kind = "ok" <=> report_file = result
        /\ result.kind = "err" =>
               /\ result.err \in {"Io", "Json"}
               /\ report_file \in {NoFile, PartialFile}
               /\ result.err = "Io" <=> report_file = NoFile

\* A crawl that processed URLs and then failed to save its report.
C14_Witness ==
    /\ pc = "done"
    /\ result.kind = "err"
    /\ Len(found_urls) >= 2
    /\ unreachable_urls # << >>

\* URL u has a host, and the host without a leading "www." is the base domain
\* of the crawl or a subdomain of it.
C15_InDomain(u) ==
    LET url == ParseUrl(u)
        host == StripWww(url.val.host)
    IN  /\ url.ok
        /\ url.val.host # NoHost
        /\ host = base_domain \/ ends_with(host, << "." >> \o base_domain)

UrlTel == << "t", "e", "l", ":", "1" >>

\* C15: every URL that is queued, in the running batch, skipped, visited or
\* requested is in the base domain of the crawl; the cross-domain link and the
\* link whose domain check errors are never among them.
C15_SameDomainConfinement ==
    /\ \A u \in Known \cup DOMAIN requests : C15_InDomain(u)
    /\ {UrlX, UrlTel} \cap (Known \cup DOMAIN requests) = {}

\* The documents with the cross-domain link and with the link whose domain
\* check errors were read, and their other links were enqueued and requested.
C15_Witness ==
    /\ << Home, Home, PageHome1 >> \in served
    /\ << UrlA, UrlA, PageA >> \in served
    /\ Count(requests, UrlP) = 1

\* C19: no step removes a URL from the visited set.
C19_VisitedOnlyGrows == [][visited_urls \subseteq visited_urls']_vars

\* The visited set has grown over several batches, through a failed request
\* as well as through a page that was read.
C19_Witness ==
    /\ Cardinality(visited_urls) >= 3
    /\ unreachable_urls # << >>
    /\ served # {}
    /\ loop_count >= 2

\* C20: the visited set has at least as many members as the found list has
\* entries, and at least as many as the returned urls list.
C20_VisitedBoundsFound ==
    /\ Cardinality(visited_urls) >= Len(found_urls)
    /\ (pc = "done" /\ result.kind = "ok") => Cardinality(visited_urls) >= Len(result.urls)

\* A crawl that returned a report with several URLs, one of them selected a
\* second time after it had been visited.
C20_Witness ==
    /\ pc = "done"
    /\ result.kind = "ok"
    /\ Len(result.urls) >= 2
    /\ processed_urls_count > Cardinality(visited_urls)

\* The crawl of site k: the one being polled, a parked one, or none.
SiteState(k) ==
    IF k = current THEN CrawlState
    ELSE IF k \in DOMAIN parked THEN parked[k]
    ELSE NoCrawl

\* How many of the outcomes are for seed url.
OutcomesFor(outcomes, url) ==
    Cardinality({ i \in 1..Len(outcomes) : outcomes[i].url = url })

SeedsEqual(url) == Cardinality({ i \in 1..Len(seed_urls) : seed_urls[i] = url })

\* C16: when the seeds could be loaded, crawl_all returns a list with exactly
\* one outcome for each seed; a seed that is no URL has a failure message
\* with its own error, every other failure message is one of saving the
\* report, and the outcomes are collected for all seeds whatever failed.
C16_OneOutcomePerSeed ==
    /\ loader_pc = "run" =>
           /\ Len(results) = processed
           /\ Len(results) + Cardinality(InProgress) = next_url - 1
    /\ loader_pc = "done" =>
           /\ crawl_all_result.kind = "ok" <=> url_file # NoFile
           /\ crawl_all_result.kind = "ok" =>
                  /\ Len(crawl_all_result.results) = Len(seed_urls)
                  /\ processed = Len(seed_urls)
                  /\ \A u \in Range(seed_urls) :
                         OutcomesFor(crawl_all_result.results, u) = SeedsEqual(u)
                  /\ \A i \in 1..Len(crawl_all_result.results) :
                         LET r == crawl_all_result.results[i]
                         IN  /\ ~ParseUrl(r.url).ok =>
                                    ~r.ok /\ r.err \in {"InvalidUrl", "UrlParse"}
                             /\ (~r.ok /\ ParseUrl(r.url).ok) => r.err \in {"Io", "Json"}

\* crawl_all returned after the seed that is no URL failed first and the two
\* seeds after it were crawled.
C16_Witness ==
    /\ loader_pc = "done"
    /\ crawl_all_result.kind = "ok"
    /\ Len(crawl_all_result.results) = 3
    /\ ~crawl_all_result.results[1].ok
    /\ crawl_all_result.results[1].url = SeedBad
    /\ crawl_all_result.results[2].ok
    /\ crawl_all_result.results[3].ok

\* The requests of a batch that were sent and whose response, or its body,
\* is awaited.
InFlight(ws) == Cardinality({ i \in 1..Len(ws) : ws[i].st \in {"send", "body"} })

RECURSIVE SumInFlight(_)
SumInFlight(sites) ==
    IF sites = {} THEN 0
    ELSE LET k == CHOOSE k \in sites : TRUE
         IN  InFlight(SiteState(k).workers) + SumInFlight(sites \ {k})

\* C17: at most max_concurrent_sites crawls are in progress, each has at most
\* max_concurrent requests in flight, and the requests in flight of all
\* sites together are at most max_concurrent_sites * max_concurrent.
C17_ConcurrencyCaps ==
    /\ Cardinality(InProgress) <= max_concurrent_sites
    /\ \A k \in InProgress : InFlight(SiteState(k).workers) <= cfg.max_concurrent
    /\ SumInFlight(InProgress) <= max_concurrent_sites * cfg.max_concurrent

\* As many crawls in progress as the limit allows, one of them with as many
\* requests in flight as its limit allows, and another with a request in flight.
C17_Witness ==
    /\ max_concurrent_sites = 2
    /\ cfg.max_concurrent = 2
    /\ Cardinality(InProgress) = 2
    /\ \E j, k \in InProgress :
           /\ j # k
           /\ InFlight(SiteState(j).workers) = 2
           /\ InFlight(SiteState(k).workers) = 1

\* C18: a step of the crawl being polled leaves the crawl of every other site
\* in progress as it was (queue, Visited Ledger, accumulators, report), and
\* so does taking up another future; the outcomes already collected stay.
C18_SiteIndependence ==
    [][/\ \A k \in InProgress :
              (k # current \/ current' \notin {0, current}) =>
                  SiteState(k)' = SiteState(k)
       /\ IsPrefix(results, results')]_vars

\* Two crawls in progress, each with its own visited URLs and queue.
C18_Witness ==
    /\ current # 0
    /\ visited_urls # {}
    /\ queue # << >>
    /\ \E k \in DOMAIN parked :
           /\ parked[k].visited_urls # {}
           /\ parked[k].visited_urls \cap visited_urls = {}
           /\ parked[k].unreachable_urls # << >>

\* A start URL crawl does not accept: it fails to parse, or it has no host.
C21_Rejected(u) == ~ParseUrl(u).ok \/ ParseUrl(u).val.host = NoHost

\* What a crawl that returns at its start leaves behind: an error, no seed in
\* the queue, nothing visited and no request.
C21_ReturnsAtStart ==
    (pc = "new" /\ pc' = "done") =>
        /\ result'.kind = "err"
        /\ \E u \in StartUrls :
               /\ C21_Rejected(u)
               /\ result'.err = extract_base_domain(u).err
        /\ queue' = << >>
        /\ visited_urls' = {}
        /\ requests' = << >>

\* C21 as stated: extract_base_domain fails with InvalidUrl for a URL without
\* a host and for a string that fails to parse, and crawl then returns an
\* error before the seed is enqueued or a request is sent.
C21_Original ==
    [][/\ \A u \in StartUrls :
              C21_Rejected(u) => extract_base_domain(u) = Err("InvalidUrl")
       /\ C21_ReturnsAtStart]_vars

\* C21: extract_base_domain fails with InvalidUrl for a URL without a host and
\* with UrlParse for a string that fails to parse; in both cases crawl returns
\* that error before the seed is enqueued or a request is sent.
C21_Amended ==
    [][/\ \A u \in StartUrls :
              /\ ~ParseUrl(u).ok => extract_base_domain(u) = Err("UrlParse")
              /\ (ParseUrl(u).ok /\ ParseUrl(u).val.host = NoHost) =>
                     extract_base_domain(u) = Err("InvalidUrl")
              /\ ~C21_Rejected(u) => extract_base_domain(u).ok
       /\ C21_ReturnsAtStart]_vars

\* A crawl returned the error of a start URL that does not parse.
C21_Witness ==
    /\ pc = "done"
    /\ result.kind = "err"
    /\ result.err = "UrlParse"
    /\ queue = << >>

\* url is prefix, a run of digits that no digit precedes or follows, and
\* suffix, and pattern is prefix*suffix.
C22_MapsTo(url, pattern) ==
    \E i \in 1..Len(url) : \E j \in i..Len(url) :
        /\ \A k \in 1..(i - 1) : url[k] \notin Digit
        /\ \A k \in i..j : url[k] \in Digit
        /\ j < Len(url) => url[j + 1] \notin Digit
        /\ pattern = SubSeq(url, 1, i - 1) \o << "*" >> \o SubSeq(url, j + 1, Len(url))

\* How many of the URLs map to the pattern.
C22_Count(urls, pattern) ==
    Cardinality({ i \in 1..Len(urls) : C22_MapsTo(urls[i], pattern) })

\* The patterns the URLs map to.
C22_Patterns(urls) ==
    UNION { { SubSeq(u, 1, a - 1) \o << "*" >> \o SubSeq(u, b + 1, Len(u)) :
                a \in 1..Len(u), b \in 1..Len(u) } : u \in Range(urls) }

\* C22: detect_massive_links_pattern returns none for fewer URLs than the
\* threshold; a pattern it returns has at least threshold URLs mapping to it
\* and no pattern has more; and it returns none when no pattern reaches the
\* threshold.
C22_Detection ==
    (call.fn = "detect_massive_links_pattern" /\ ret # NoResult) =>
        /\ Len(call.urls) < call.threshold => ret.val = None
        /\ ret.val.some =>
               /\ C22_Count(call.urls, ret.val.val) >= call.threshold
               /\ C22_Count(call.urls, ret.val.val) >= 1
               /\ \A q \in C22_Patterns(call.urls) :
                      C22_Count(call.urls, q) <= C22_Count(call.urls, ret.val.val)
        /\ (\A q \in C22_Patterns(call.urls) :
                C22_Count(call.urls, q) < call.threshold \/ C22_Count(call.urls, q) = 0)
               => ret.val = None

\* A pattern was returned while another pattern reached the threshold with a
\* lower count.
C22_Witness ==
    /\ call.fn = "detect_massive_links_pattern"
    /\ ret # NoResult
    /\ ret.val.some
    /\ call.threshold >= 1
    /\ \E q \in C22_Patterns(call.urls) :
           /\ C22_Count(call.urls, q) >= call.threshold
           /\ C22_Count(call.urls, q) < C22_Count(call.urls, ret.val.val)

\* The URL starts with the prefix and ends with the suffix of the pattern:
\* it is prefix, digits, suffix; or the pattern has one star, and the URL
\* starts with what is before it and ends with what is after it.
C23_Covers(pattern, url) ==
    \/ C22_MapsTo(url, pattern)
    \/ /\ Cardinality({ i \in 1..Len(pattern) : pattern[i] = "*" }) = 1
       /\ starts_with(url, SubSeq(pattern, 1, FirstIn(pattern, {"*"}) - 1))
       /\ ends_with(url, SubSeq(pattern, FirstIn(pattern, {"*"}) + 1, Len(pattern)))

\* C23: the pattern set only grows, and in every loop every batch entry with
\* depth < max_depth whose URL starts with the prefix and ends with the
\* suffix of a pattern of the set is recorded under massive_link_pattern and
\* gets no worker.
C23_PatternSkips ==
    [][/\ massive_link_patterns \subseteq massive_link_patterns'
       /\ (pc = "loop" /\ pc' = "wait") =>
              \A i \in 1..Len(batch') :
                  (/\ batch'[i].depth < cfg.max_depth
                   /\ \E pattern \in massive_link_patterns' :
                          C23_Covers(pattern, batch'[i].url)) =>
                      /\ CountIn(skipped_urls'["massive_link_pattern"], batch'[i].url)
                           > CountIn(skipped_urls["massive_link_pattern"], batch'[i].url)
                      /\ \A j \in 1..Len(workers') : workers'[j].url # batch'[i].url]_vars

\* t is line without the whitespace at its start and at its end.
C24_IsTrimOf(line, t) ==
    \E a \in 0..Len(line) :
        /\ a + Len(t) <= Len(line)
        /\ SubSeq(line, a + 1, a + Len(t)) = t
        /\ \A k \in 1..a : line[k] \in Whitespace
        /\ \A k \in (a + Len(t) + 1)..Len(line) : line[k] \in Whitespace
        /\ t # << >> => t[1] \notin Whitespace /\ t[Len(t)] \notin Whitespace

\* The line has a character that is not whitespace, and the first such
\* character is not '#'.
C24_IsSeed(line) ==
    \E k \in 1..Len(line) :
        /\ line[k] \notin Whitespace \cup {"#"}
        /\ \A j \in 1..(k - 1) : line[j] \in Whitespace

\* C24: load_urls returns the seed lines of the file, trimmed and in file
\* order: the k-th element returned is the trimmed k-th seed line; for the
\* empty file it returns the empty list.
C24_LoadUrls ==
    (call.fn = "load_urls" /\ ret # NoResult /\ call.file # NoFile) =>
        LET seeds == { i \in 1..Len(call.file.lines) : C24_IsSeed(call.file.lines[i]) }
        IN  /\ ret.val.ok
            /\ call.file.lines = << >> => ret.val.val = << >>
            /\ Len(ret.val.val) = Cardinality(seeds)
            /\ \A i \in seeds :
                   C24_IsTrimOf(call.file.lines[i],
                                ret.val.val[Cardinality({ j \in seeds : j <= i })])

\* Two seeds returned from three lines, one of them stripped of its padding.
C24_Witness ==
    /\ call.fn = "load_urls"
    /\ ret # NoResult
    /\ call.file # NoFile
    /\ Len(call.file.lines) = 3
    /\ call.file.lines[2] = << " ", "#", "c", " " >>
    /\ call.file.lines[3] = << " ", "u", " " >>
    /\ ret.val.ok
    /\ Len(ret.val.val) = 2
    /\ ret.val.val[2] = << "u" >>

\* C25: when the URL file cannot be opened, crawl_all returns the Io error of
\* load_urls; no seed is loaded, no future is made or polled, nothing is
\* requested, no outcome is collected and no report is written.
C25_UrlFileMissing ==
    (url_file = NoFile /\ loader_pc # "new") =>
        /\ load_urls(url_file) = Err("Io")
        /\ loader_pc = "done"
        /\ crawl_all_result = [kind |-> "err", err |-> "Io"]
        /\ seed_urls = << >>
        /\ next_url = 1
        /\ InProgress = {}
        /\ CrawlState = NoCrawl
        /\ requests = << >>
        /\ results = << >>
        /\ processed = 0
        /\ files = << >>

\* crawl_all returned because the URL file could not be opened.
C25_Witness ==
    /\ url_file = NoFile
    /\ loader_pc = "done"
    /\ crawl_all_result.kind = "err"
    /\ max_concurrent_sites > 0

\* The host of the URL without one leading "www."; the URL has a host.
C26_Host(u) ==
    LET host == ParseUrl(u).val.host
    IN  IF Len(host) >= 4 /\ SubSeq(host, 1, 4) = << "w", "w", "w", "." >>
        THEN SubSeq(host, 5, Len(host))
        ELSE host

C26_HasHost(u) == ParseUrl(u).ok /\ ParseUrl(u).val.host # NoHost

\* host is domain, or something, a dot, and domain.
C26_Within(host, domain) ==
    \/ host = domain
    \/ \E k \in 1..Len(host) :
           host[k] = "." /\ SubSeq(host, k + 1, Len(host)) = domain

\* C26: is_same_domain is true exactly when the host of the URL without one
\* leading "www." is the base domain or ends with a dot and the base domain,
\* and an error when the URL has no host or does not parse; so a subdomain of
\* the base is within it, a sibling of a subdomain base is not, and every URL
\* with a host is within the base domain extracted from itself.
C26_SameDomain ==
    (call.fn = "is_same_domain" /\ ret # NoResult) =>
        /\ ret.val.ok <=> C26_HasHost(call.url)
        /\ ret.val.ok =>
               (ret.val.val <=> C26_Within(C26_Host(call.url), call.base_domain))
        /\ (call.url = UrlD /\ call.base_domain = << "e", ".", "c" >>) =>
               ret.val = Ok(TRUE)
        /\ (call.url = HTTP \o << "o", ".", "e", ".", "c", "/" >>
              /\ call.base_domain = << "d", ".", "e", ".", "c" >>) =>
               ret.val = Ok(FALSE)
        /\ (C26_HasHost(call.url)
              /\ extract_base_domain(call.url) = Ok(call.base_domain)) =>
               ret.val = Ok(TRUE)

\* A host that ends with the letters of the base domain, without the dot
\* before them, was found outside the base domain.
C26_Witness ==
    /\ call.fn = "is_same_domain"
    /\ call.url = HTTP \o << "d", "e", ".", "c", "/" >>
    /\ call.base_domain = << "e", ".", "c" >>
    /\ ret = Returned(Ok(FALSE))

\* The URL has "/p", the priority path, somewhere in it.
C27_PriorityPath(u) == \E j \in 1..(Len(u) - 1) : u[j] = "/" /\ u[j + 1] = "p"

\* The step accepts the seed and leaves it alone in the queue, at depth 0
\* with priority 100.
C27_SeedEnqueued ==
    (pc = "new" /\ pc' = "loop") =>
        /\ loop_count' = 0
        /\ queue' = << [url |-> base_url', depth |-> 0, priority |-> 100] >>

\* Every entry the step appends to the queue is one level below the page of
\* the worker that finished in the step, with priority 50 or 10 by its path.
C27_LinkEnqueued ==
    (pc = "wait" /\ pc' = "wait") =>
        /\ Len(queue') >= Len(queue)
        /\ SubSeq(queue', 1, Len(queue)) = queue
        /\ \A k \in (Len(queue) + 1)..Len(queue') :
               \E i \in 1..Len(workers) :
                   /\ workers[i].st = "body"
                   /\ workers'[i].st = "done"
                   /\ queue'[k].depth = workers[i].depth + 1
                   /\ queue'[k].priority =
                          IF C27_PriorityPath(queue'[k].url) THEN 50 ELSE 10

\* The step starts the first iteration of the loop.
C27_FirstBatch == pc = "loop" /\ loop_count = 0 /\ pc' = "wait"

C27_Seed == [url |-> base_url, depth |-> 0, priority |-> 100]

C28_PassedEarlier(entry, patterns) ==
    /\ entry.depth < cfg.max_depth
    /\ ~\E p \in patterns : C23_Covers(p, entry.url)
    /\ ~\E j \in 1..(Len(entry.url) - 2) :
           SubSeq(entry.url, j, j + 2) = << "/", "k", "/" >>

\* C28: an entry that passed the earlier filters and whose URL the subdomain
\* check fails on (it does not parse or has no host) is recorded under no
\* skip reason and gets a future that starts process_url for it.
C28_FailOpen ==
    (call.fn = "filter" /\ ret # NoResult
       /\ C28_PassedEarlier(call.entry, call.patterns)
       /\ ~C26_HasHost(call.entry.url)) =>
        /\ \A r \in Range(Reasons) : ret.val.skipped[r] = << >>
        /\ ret.val.futures =
               << [url |-> call.entry.url, depth |-> call.entry.depth,
                   st |-> "start", cur |-> << >>, held |-> {}] >>

\* The filters were applied to an entry with a URL without a host that passed
\* the earlier ones.
C28_Witness ==
    /\ call.fn = "filter"
    /\ ret # NoResult
    /\ call.entry.url = SeedNoHost
    /\ call.entry.depth = 1
    /\ call.patterns = { Home \o << "k", "/", "*" >> }
    /\ Len(ret.val.futures) = 1

\* In a crawl the subdomain check fails on no entry of a batch: the seed and
\* every enqueued link have parsed with a host before.
C28_NoErrorInCrawl ==
    \A k \in 1..Len(batch) :
        should_skip_subdomain(batch[k].url, skip_subdomain_patterns).ok

\* In the step the request of worker i is answered with a response (its
\* current_url is set to the URL the response came from).
C29_Response(i) ==
    /\ pc = "wait" /\ pc' = "wait"
    /\ workers[i].st = "send"
    /\ workers'[i].st \in {"body", "done"}
    /\ workers'[i].cur # << >>

\* C29: a step changes the redirect map exactly when it is a response whose
\* final URL differs from the URL requested, and then requested -> final is
\* put in, whether the response is HTML or not; the links of a page are
\* resolved against the final URL.
C29_Redirects ==
    [][/\ \A i \in 1..Len(workers) :
              C29_Response(i) =>
                  IF workers'[i].cur # workers[i].url
                  THEN /\ << workers[i].url, workers'[i].cur >> \in redirects'
                       /\ \A kv \in redirects' :
                              kv[1] = workers[i].url => kv[2] = workers'[i].cur
                       /\ \A kv \in redirects :
                              kv[1] # workers[i].url => kv \in redirects'
                  ELSE redirects' = redirects
       /\ redirects' # redirects =>
              \E i \in 1..Len(workers) :
                  /\ C29_Response(i)
                  /\ workers'[i].cur # workers[i].url
                  /\ redirects' \ redirects = { << workers[i].url, workers'[i].cur >> }
       /\ \A i \in 1..Len(workers) :
              (pc = "wait" /\ pc' = "wait"
                 /\ workers[i].st = "body" /\ workers'[i].st = "done") =>
                  \A k \in (Len(queue) + 1)..Len(queue') :
                      \E hrefs \in Pages(workers[i].cur) :
                          \E n \in 1..Len(hrefs) :
                              resolve_url(workers[i].cur, hrefs[n]) = Ok(queue'[k].url)]_vars

\* A request was redirected to a page in another directory, whose relative
\* link was enqueued as resolved against the final URL; another request was
\* redirected to a response that is not HTML.
C29_Witness ==
    /\ << UrlStar1, UrlA >> \in redirects
    /\ << UrlStar1, UrlA, PageA >> \in served
    /\ << UrlP, Home >> \in redirects
    /\ ~\E t \in served : t[1] = UrlP
    /\ \E i \in 1..Len(workers) : workers[i].url = UrlP /\ workers[i].st = "done"

\* C30: a worker that is suspended in the delay, in the request or in the
\* read of the body holds no lock of the shared collections.
C30_NoLockAcrossAwait ==
    \A i \in 1..Len(workers) :
        workers[i].st \in {"delay", "send", "body"} => workers[i].held = {}

\* Two workers of a batch are suspended at once, one in the delay after it
\* went through the ledger and the found list, one in the read of the body
\* after it recorded a redirect.
C30_Witness ==
    /\ pc = "wait"
    /\ \E i, j \in 1..Len(workers) :
           /\ workers[i].st = "delay"
           /\ workers[i].url \in visited_urls
           /\ workers[j].st = "body"
           /\ workers[j].cur # workers[j].url
           /\ << workers[j].url, workers[j].cur >> \in redirects

\* C31: for every configuration the delay before a request completes, with
\* a duration d such that min_request_delay_ms <= d <= max_request_delay_ms.
C31_DelayInRange ==
    (call.fn = "apply_delay" /\ ret # NoResult) =>
        /\ ret.val.kind = "slept"
        /\ call.min_request_delay_ms <= ret.val.delay_ms
        /\ ret.val.delay_ms <= call.max_request_delay_ms

\* A request is counted only in a step of a worker whose delay is over, and
\* a worker sends its request while another is still in its delay.
C31_SentAfterDelay ==
    [][requests' # requests =>
           \E i \in 1..Len(workers) :
               /\ workers[i].st = "delay"
               /\ workers'[i].st = "send"
               /\ requests' = Inc(requests, workers[i].url)]_vars

C31_PerRequest ==
    \E i, j \in 1..Len(workers) : workers[i].st = "delay" /\ workers[j].st = "send"

\* C32: with pattern_threshold > max_concurrent the pattern set stays empty
\* and no URL is recorded under massive_link_pattern.
C32_NeverFires ==
    cfg.pattern_threshold > cfg.max_concurrent =>
        /\ massive_link_patterns = {}
        /\ skipped_urls["massive_link_pattern"] = << >>

\* A full batch of two numbered URLs of one pattern, below the threshold of 3.
C32_Witness ==
    /\ cfg.pattern_threshold > cfg.max_concurrent
    /\ pc = "wait"
    /\ Len(batch) = cfg.max_concurrent
    /\ Urls(batch) = << UrlK1, UrlK2 >>
    /\ massive_link_patterns = {}

\* C33: every queue entry has depth <= max_depth; a URL enters the Visited
\* Ledger, and a request is sent, only in a step of a worker that was
\* dispatched from an entry of the batch with depth < max_depth.
C33_DepthBound ==
    [][/\ \A k \in 1..Len(queue') : queue'[k].depth <= cfg.max_depth
       /\ \A u \in visited_urls' \ visited_urls :
              \E i \in 1..Len(workers) :
                  /\ workers[i].url = u
                  /\ workers[i].depth < cfg.max_depth
                  /\ \E k \in 1..Len(batch) :
                         batch[k].url = u /\ batch[k].depth = workers[i].depth
       /\ requests' # requests =>
              \E i \in 1..Len(workers) :
                  /\ requests' = Inc(requests, workers[i].url)
                  /\ workers[i].depth < cfg.max_depth]_vars

\* A page just below max_depth was fetched and its links wait in the queue
\* at max_depth; an entry at max_depth was selected and skipped.
C33_Witness ==
    /\ cfg.max_depth >= 1
    /\ \E k \in 1..Len(queue) : queue[k].depth = cfg.max_depth
    /\ skipped_urls["max_depth_exceeded"] # << >>
    /\ \E t \in served : t[1] \in visited_urls /\ t[1] # base_url

\* The number of entries recorded as skipped, over all reasons.
C34_Skipped ==
    Len(skipped_urls["max_depth_exceeded"]) + Len(skipped_urls["massive_link_pattern"])
        + Len(skipped_urls["skip_pattern"]) + Len(skipped_urls["subdomain_pattern"])

\* The futures of the batch that have not yet looked at the Visited Ledger.
C34_Pending == Cardinality({ i \in 1..Len(workers) : workers[i].st = "start" })

\* C34: every entry selected into a batch is recorded under one skip reason,
\* or inserted into the Visited Ledger and appended once to the found list,
\* or dropped as already visited: between loops processed_urls is the number
\* of skipped entries + the size of the Visited Ledger + the number of
\* entries dropped, and within a loop the batch makes up the difference with
\* the entries whose future has not started.
C34_Conservation ==
    /\ Len(found_urls) = Cardinality(visited_urls)
    /\ pc # "wait" =>
           processed_urls_count =
               C34_Skipped + Cardinality(visited_urls) + dropped_count
    /\ pc = "wait" =>
           processed_urls_count + Len(batch) =
               C34_Skipped + Cardinality(visited_urls) + dropped_count + C34_Pending

\* After a loop, with entries of all three outcomes.
C34_Witness ==
    /\ pc = "loop"
    /\ processed_urls_count >= 3
    /\ C34_Skipped >= 1
    /\ Cardinality(visited_urls) >= 1
    /\ dropped_count >= 1

\* C35: the counter goes up by one in the step that selects a batch and in
\* no step of the batch, so that in the loop it is the number of iterations
\* that selected and processed a batch; the report's loops is that number,
\* and is at most max_loops.
C35_LoopsRun ==
    [][/\ (pc = "loop" /\ pc' = "wait") => loop_count' = loop_count + 1
       /\ (pc = "wait") => loop_count' = loop_count
       /\ (pc = "loop" /\ pc' = "done" /\ result'.kind = "ok") =>
              /\ result'.stats.loops = loop_count
              /\ result'.stats.loops <= cfg.max_loops]_vars

\* The report's loops is never above max_loops.
C35_AtMostMaxLoops ==
    (pc = "done" /\ result.kind = "ok") => result.stats.loops <= cfg.max_loops

\* C36: the report's remaining_queue is the URLs of the queue as the loop
\* left it, in order; it is empty when the loop ended on an empty queue,
\* and with max_loops = 0 it is the seed alone and urls is empty.
C36_RemainingQueue ==
    [][(pc = "loop" /\ pc' = "done" /\ result'.kind = "ok") =>
           /\ Len(result'.remaining_queue) = Len(queue)
           /\ \A k \in 1..Len(queue) : result'.remaining_queue[k] = queue[k].url
           /\ loop_count < cfg.max_loops => result'.remaining_queue = << >>
           /\ result'.remaining_queue # << >> => loop_count = cfg.max_loops
           /\ cfg.max_loops = 0 =>
                  /\ result'.remaining_queue = << base_url >>
                  /\ result'.urls = << >>]_vars

\* A crawl that used all of its loops, one at least, and left URLs queued.
C36_Witness ==
    /\ pc = "done"
    /\ result.kind = "ok"
    /\ cfg.max_loops >= 1
    /\ result.stats.loops = cfg.max_loops
    /\ Len(result.remaining_queue) >= 2
    /\ result.urls # << >>

\* C37: every iteration that finds the queue non-empty takes a batch of one
\* entry or more out of it.
C37_LoopProgress ==
    [][(pc = "loop" /\ pc' = "wait" /\ queue # << >>) =>
           /\ Len(batch') >= 1
           /\ Len(queue') < Len(queue)]_vars

\* With max_concurrent of 1 or more, every iteration that finds the queue
\* non-empty takes a batch of one entry or more out of it.
C37_ProgressWhenConcurrent ==
    [][(pc = "loop" /\ pc' = "wait" /\ queue # << >> /\ cfg.max_concurrent >= 1) =>
           /\ Len(batch') >= 1
           /\ Len(queue') < Len(queue)]_vars

\* C38: the guards a thread holds together are none, one, or the Visited
\* Ledger's and then the queue's; and while a thread has an operation left,
\* some thread can take its next one.
C38_LockOrder ==
    (call.fn = "locks" /\ ret # NoResult) =>
        /\ \A t \in 1..Len(call.programs) :
               \/ Len(ret.held[t]) <= 1
               \/ ret.held[t] = << "visited_urls", "queue" >>
        /\ (\E t \in 1..Len(call.programs) : AtOp(t)) =>
               \E t \in 1..Len(call.programs) : CanStep(t)

\* A future holds the ledger and the queue while another future waits for
\* the ledger and the loop waits for the queue.
C38_Witness ==
    /\ call.fn = "locks"
    /\ ret # NoResult
    /\ \E t, u, v \in 1..Len(call.programs) :
           /\ ret.held[t] = << "visited_urls", "queue" >>
           /\ AtOp(u) /\ ~CanStep(u)
           /\ call.programs[u][ret.at[u]] = Lock("visited_urls")
           /\ AtOp(v) /\ ~CanStep(v)
           /\ call.programs[v][ret.at[v]] = Lock("queue")

\* C39: every URL of the batch that was counted toward the pattern that
\* detection returned is matched by that pattern in the filter.
C39_RoundTrip ==
    (call.fn = "detect_then_filter" /\ ret # NoResult /\ ret.val.pattern.some) =>
        \A i \in 1..Len(call.urls) :
            C22_MapsTo(call.urls[i], ret.val.pattern.val) => i \in ret.val.matched

\* The same for the URLs without a star.
C39_RoundTripNoStar ==
    (call.fn = "detect_then_filter" /\ ret # NoResult /\ ret.val.pattern.some) =>
        \A i \in 1..Len(call.urls) :
            (/\ C22_MapsTo(call.urls[i], ret.val.pattern.val)
             /\ \A k \in 1..Len(call.urls[i]) : call.urls[i][k] # "*") =>
                i \in ret.val.matched

C39_NoStarMatched ==
    /\ call.fn = "detect_then_filter"
    /\ ret # NoResult
    /\ ret.val.matched # {}

\* The report file of the seed holds the report of the crawl of that seed.
C40_OwnReport(url) ==
    LET file == FileAt(domain_to_filename(extract_base_domain(url).val))
    IN  /\ file # NoFile
        /\ file # PartialFile
        /\ file.base_url = normalize_url(url).val

\* C40: once crawl_all has returned, the report file of every seed that was
\* crawled successfully holds the report of that seed.
C40_OneDocumentPerSite ==
    loader_pc = "done" =>
        \A k \in 1..Len(results) : results[k].ok => C40_OwnReport(results[k].url)

\* The same when no two seeds of the list have the same base domain.
C40_DistinctDomains ==
    (/\ loader_pc = "done"
     /\ \A i, j \in 1..Len(seed_urls) :
            (/\ i # j
             /\ extract_base_domain(seed_urls[i]).ok
             /\ extract_base_domain(seed_urls[j]).ok) =>
                extract_base_domain(seed_urls[i]) # extract_base_domain(seed_urls[j])) =>
        \A k \in 1..Len(results) : results[k].ok => C40_OwnReport(results[k].url)

=============================================================================
